---- MODULE Spec2Model ----
(***************************************************************************)
(* Model of the milk calculator web application (app.py): the User and     *)
(* Milk tables, the page routes /, /add, /edit, /delete, /settings and the *)
(* JSON routes /api/milk/records and /api/settings.                        *)
(*                                                                         *)
(* Python floats are modelled as records: F(n) is the number n, NaN is the *)
(* value float("nan") yields.  Strings with a fixed layout are modelled as *)
(* the sequence of their "-"-separated parts: an ISO form/JSON date        *)
(* "YYYY-MM-DD" is <<y, m, d>>, a stored date "DD-MM-YYYY" is <<d, m, y>>  *)
(* and a month key "MM-YYYY" is <<m, y>>.                                  *)
(***************************************************************************)
EXTENDS Integers, Sequences, FiniteSets, TLC

\* ------------------------------------------------------------------ bounds
NumUsers == 2
MaxRecords == 2
MaxDay == 2
NumWorkers == 2

\* significant bits of the model's floats
Precision == 8

\* a price a settings request submits, other than the default
OtherPrice == 60

\* ------------------------------------------------------- program constants
DefaultPrice == 50

VARIABLES
    users,      \* user table: id -> [price, currency, symbol]
    milk,       \* milk table: id -> [date, month_year, milk_qty, cost, user_id]
    nextId,     \* next primary key of the milk table
    day,        \* the server's calendar day (dt.datetime.now())
    last,       \* the request handled last and its response
    lw,         \* history: owner's price when the row was last written
    lcw,        \* history: owner's price when the row's cost was last written
    pend,       \* add requests between their existence check and their insert
    accounts,   \* user table, the account columns: id -> [email, ...]
    session,    \* the browser session's user_id, 0 when absent
    issued,     \* the tokens handed to clients so far
    clock,      \* the time (UTC), in hours
    tz,         \* hours the server's local time is ahead of UTC
    latest,     \* history: the refresh token issued to each user last, since
                \* the user's last logout
    mail,       \* the verification tokens delivered by email so far
    how,        \* history: how each account was created, and whether
                \* /verify-email has confirmed it
    local,      \* the local SQLite database the maintenance scripts work on
    remote,     \* the PostgreSQL database the maintenance scripts work on
    run         \* the maintenance script that is running, and its position

vars == <<users, milk, nextId, day, last, lw, lcw, pend,
          accounts, session, issued, clock, tz, latest, mail, how,
          local, remote, run>>

\* the state of accounts, sessions and tokens
authVars == <<accounts, session, issued, clock, tz, latest, mail, how>>

\* the state of the maintenance scripts and their databases
scriptVars == <<local, remote, run>>

UserIds == 1..NumUsers
Workers == 1..NumWorkers
RecordIds == 1..MaxRecords

\* ------------------------------------------------------------------ floats
F(n) == [nan |-> FALSE, v |-> n]
NaN == [nan |-> TRUE, v |-> 0]

\* the floats carry Precision significant bits (a Python float carries 53):
\* the integer n rounded to the nearest float, ties to the even significand
Round(n) ==
    LET a == IF n < 0 THEN -n ELSE n
        e == CHOOSE x \in 0..(2 * Precision) :
                 /\ a < 2^(Precision + x)
                 /\ (x = 0 \/ a >= 2^(Precision + x - 1))
        unit == 2^e
        q == a \div unit
        r == a % unit
        up == 2 * r > unit \/ (2 * r = unit /\ q % 2 = 1)
        m == (IF up THEN q + 1 ELSE q) * unit
    IN IF n < 0 THEN -m ELSE m

\* a * b on floats
FMul(a, b) == IF a.nan \/ b.nan THEN NaN ELSE F(Round(a.v * b.v))

\* a <= 0 on floats (every comparison with NaN is False)
FLeZero(a) == ~a.nan /\ a.v <= 0

\* a > 0 on floats
FPositive(a) == ~a.nan /\ a.v > 0

\* FAdd without rounding
FAddExact(a, b) == IF a.nan \/ b.nan THEN NaN ELSE F(a.v + b.v)

\* a + b on floats
FAdd(a, b) == IF a.nan \/ b.nan THEN NaN ELSE F(Round(a.v + b.v))

\* a == b on floats (NaN equals nothing, itself included)
FEq(a, b) == ~a.nan /\ ~b.nan /\ a.v = b.v

\* a != b on floats (NaN differs from everything, itself included)
FNe(a, b) == a.nan \/ b.nan \/ a.v # b.v

\* A request field handed to float(): a missing key (None), a non-numeric
\* string, a JSON number, a numeric string, or the string "nan".
Absent == [k |-> "none", v |-> 0]
Text == [k |-> "text", v |-> 0]
Num(n) == [k |-> "num", v |-> n]
NumStr(n) == [k |-> "numstr", v |-> n]
NanStr == [k |-> "nan", v |-> 0]

\* FloatOk accepting every field
FloatOkAny(raw) == TRUE

\* float(raw) succeeds
FloatOk(raw) == raw.k \in {"num", "numstr", "nan"}

\* float(raw), for FloatOk(raw)
FloatOf(raw) == IF raw.k = "nan" THEN NaN ELSE F(raw.v)

\* Python truthiness of a request field
Truthy(raw) ==
    CASE raw.k = "none" -> FALSE
      [] raw.k = "num" -> raw.v # 0
      [] OTHER -> TRUE

\* ------------------------------------------------------------------- dates
NoDate == <<>>
BadDate == <<2024, 13, 1>>

DaysInMonth(m) == IF m = 2 THEN 29 ELSE IF m \in {4, 6, 9, 11} THEN 30 ELSE 31

\* dt.datetime.strptime(raw, "%Y-%m-%d") succeeds
ParseOk(raw) ==
    /\ Len(raw) = 3
    /\ raw[2] \in 1..12
    /\ raw[3] \in 1..DaysInMonth(raw[2])

\* the datetime strptime returns
Parse(raw) == [y |-> raw[1], m |-> raw[2], d |-> raw[3]]

\* FmtDate in the order of the ISO string
FmtDateIso(p) == <<p.y, p.m, p.d>>

\* parsed.strftime("%d-%m-%Y")
FmtDate(p) == <<p.d, p.m, p.y>>

\* FmtMonthYear with the day in place of the month
FmtMonthYearDay(p) == <<p.d, p.y>>

\* parsed.strftime("%m-%Y")
FmtMonthYear(p) == <<p.m, p.y>>

\* get_month_year(date_str): the middle and last part of a three-part string
get_month_year(date_str) ==
    IF Len(date_str) = 3 THEN <<date_str[2], date_str[3]>> ELSE <<>>

\* dt.datetime.now() on calendar day n (day 1 is 31 January 2024)
Now(n) == IF n <= 1 THEN [y |-> 2024, m |-> 1, d |-> 30 + n]
                    ELSE [y |-> 2024, m |-> 2, d |-> n - 1]

\* the ISO string a client sends for a calendar day
Iso(p) == <<p.y, p.m, p.d>>

\* the date and month key an add request stores: the parsed date when the
\* field is non-empty and parses, otherwise the server's current day
ResolveDate(raw, n) ==
    LET p == IF Len(raw) > 0 /\ ParseOk(raw) THEN Parse(raw) ELSE Now(n)
    IN [date |-> FmtDate(p), month_year |-> FmtMonthYear(p),
        dflt |-> ~(Len(raw) > 0 /\ ParseOk(raw))]

\* ------------------------------------------------------------------ tables
\* class Milk: one row
MilkRow(date, my, qty, cost, u) ==
    [date |-> date, month_year |-> my, milk_qty |-> qty, cost |-> cost,
     user_id |-> u]

\* class User: the settings columns and their defaults ("Rs" stands for the
\* rupee sign)
NewUser == [price |-> F(DefaultPrice), currency |-> "INR", symbol |-> "Rs"]

\* PriceOf ignoring the user's setting
PriceOfDefault(u) == F(DefaultPrice)

\* user.milk_price_per_litre if user else 50.0
PriceOf(u) == IF u \in DOMAIN users THEN users[u].price ELSE F(DefaultPrice)

\* db.select(Milk).filter_by(user_id=u)
OwnedBy(u) == {i \in DOMAIN milk : milk[i].user_id = u}

\* Existing filtering the month key column instead of the date column
ExistingByMonth(u, date) == {i \in OwnedBy(u) : milk[i].month_year = date}

\* db.select(Milk).filter_by(date=date, user_id=u)
Existing(u, date) == {i \in OwnedBy(u) : milk[i].date = date}

\* Owns without the user_id filter
OwnsAnyUser(u, id) == id \in DOMAIN milk

\* db.select(Milk).filter_by(id=id, user_id=u).scalar_one_or_none() finds a row
Owns(u, id) == id \in OwnedBy(u)

\* the response of a request
Resp(op, caller, id, status, date, rows) ==
    [op |-> op, caller |-> caller, id |-> id, status |-> status,
     date |-> date, rows |-> rows, dflt |-> FALSE]

\* the response of an add request; dflt: the date was taken from the clock
AddResp(op, caller, id, status, r, rows) ==
    [Resp(op, caller, id, status, r.date, rows) EXCEPT !.dflt = r.dflt]

\* a function extended or overwritten at one point
Put(f, k, val) == [i \in DOMAIN f \cup {k} |-> IF i = k THEN val ELSE f[i]]

\* a function with one point removed
Drop(f, k) == [i \in DOMAIN f \ {k} |-> f[i]]

\* InsertRow under a unique constraint on (user_id, date): the commit of a
\* second row fails and is rolled back
InsertRowUnique(row) ==
    IF \E i \in DOMAIN milk :
          milk[i].user_id = row.user_id /\ milk[i].date = row.date
    THEN UNCHANGED <<milk, nextId, lw, lcw>>
    ELSE /\ nextId <= MaxRecords
         /\ milk' = Put(milk, nextId, row)
         /\ nextId' = nextId + 1
         /\ lw' = Put(lw, nextId, PriceOf(row.user_id))
         /\ lcw' = Put(lcw, nextId, PriceOf(row.user_id))

\* db.session.add(new_record); db.session.commit()
InsertRow(row) ==
    /\ nextId <= MaxRecords
    /\ milk' = Put(milk, nextId, row)
    /\ nextId' = nextId + 1
    /\ lw' = Put(lw, nextId, PriceOf(row.user_id))
    /\ lcw' = Put(lcw, nextId, PriceOf(row.user_id))

\* a committed update of one row; costWritten: the handler assigned cost
UpdateRow(id, row, costWritten) ==
    /\ milk' = Put(milk, id, row)
    /\ lw' = Put(lw, id, PriceOf(row.user_id))
    /\ lcw' = IF costWritten THEN Put(lcw, id, PriceOf(row.user_id)) ELSE lcw
    /\ UNCHANGED nextId

\* db.session.delete(row); db.session.commit()
DeleteRow(id) ==
    /\ milk' = Drop(milk, id)
    /\ lw' = Drop(lw, id)
    /\ lcw' = Drop(lcw, id)
    /\ UNCHANGED nextId

NoTableChange == UNCHANGED <<milk, nextId, lw, lcw>>

\* a request worker that handles no add request
Idle == [pc |-> "idle"]

\* ------------------------------------------------------------ listings
\* string comparison a > b of two stored dates "DD-MM-YYYY"
DateAfter(a, b) ==
    \/ a[1] > b[1]
    \/ a[1] = b[1] /\ a[2] > b[2]
    \/ a[1] = b[1] /\ a[2] = b[2] /\ a[3] > b[3]

\* order_by(Milk.date.desc(), Milk.id.desc()): the ids of the rows S, first
\* row first (the API orders by date only; rows of equal date are taken by
\* descending id there as well)
RECURSIVE Listing(_)
Listing(S) ==
    IF S = {} THEN <<>>
    ELSE LET top == CHOOSE i \in S : \A j \in S \ {i} :
                        \/ DateAfter(milk[i].date, milk[j].date)
                        \/ milk[i].date = milk[j].date /\ i > j
         IN <<top>> \o Listing(S \ {top})

\* GroupOf keeping only the first row of each month
GroupOfFirst(L, m) ==
    LET g == SelectSeq(L, LAMBDA i : milk[i].month_year = m)
    IN IF g = <<>> THEN g ELSE <<Head(g)>>

\* monthly_data[m]: the rows of the listing L whose month_year is m
GroupOf(L, m) == SelectSeq(L, LAMBDA i : milk[i].month_year = m)

\* the keys of monthly_data: the month_year values that are truthy
MonthsOf(L) == {milk[L[k]].month_year : k \in 1..Len(L)} \ {<<>>}

\* strptime(a, "%m-%Y") > strptime(b, "%m-%Y")
MonthAfter(a, b) == a[2] > b[2] \/ (a[2] = b[2] /\ a[1] > b[1])

\* sorted(monthly_data.keys(), key=strptime, reverse=True)
RECURSIVE SortedMonths(_)
SortedMonths(M) ==
    IF M = {} THEN <<>>
    ELSE LET top == CHOOSE a \in M : \A b \in M \ {a} : MonthAfter(a, b)
         IN <<top>> \o SortedMonths(M \ {top})

\* sum(values) on floats: the additions run from the left, starting at 0
RECURSIVE FSum(_)
FSum(values) ==
    IF values = <<>> THEN F(0)
    ELSE FAdd(FSum(SubSeq(values, 1, Len(values) - 1)), values[Len(values)])

\* the sum of values without rounding
RECURSIVE ExactSum(_)
ExactSum(values) ==
    IF values = <<>> THEN F(0)
    ELSE FAddExact(ExactSum(SubSeq(values, 1, Len(values) - 1)),
                   values[Len(values)])

\* the costs of the rows L; "r.cost or 0.0" is r.cost for every number
CostsOf(L) == [k \in 1..Len(L) |-> milk[L[k]].cost]

\* the response of the home view and of the API listing for the rows L
ListResp(op, u, status, L) ==
    LET M == MonthsOf(L) IN
    [op |-> op, caller |-> u, id |-> 0, status |-> status, date |-> NoDate,
     rows |-> {L[k] : k \in 1..Len(L)}, dflt |-> FALSE,
     monthly_data |-> [m \in M |-> GroupOf(L, m)],
     monthly_totals |-> [m \in M |-> FSum(CostsOf(GroupOf(L, m)))],
     sorted_months |-> SortedMonths(M),
     total |-> FSum(CostsOf(L)),
     total_records |-> Len(L)]

\* ---------------------------------------------------- accounts and tokens
\* a request field that is missing or empty (falsy in Python)
Missing == ""

\* a column that holds NULL
None == <<>>

\* generate_password_hash(password)
Hash(password) == <<password>>

\* check_password_hash accepting every password
check_password_hashAny(pwhash, password) == TRUE

\* check_password_hash(pwhash, password)
check_password_hash(pwhash, password) == pwhash = Hash(password)

\* class User: the account columns of one row
Account(email, password_hash, email_verified, oauth_provider) ==
    [email |-> email, password_hash |-> password_hash,
     email_verified |-> email_verified, oauth_provider |-> oauth_provider,
     oauth_id |-> None, refresh_token |-> None]

\* the subject id the provider reports for the identity with address email
\* (user_info 'sub' at Google, str(user_info 'id') at GitHub)
SubjectOf(provider, email) == <<provider, email>>

\* User(email=..., oauth_provider=..., oauth_id=..., email_verified=True)
OAuthAccount(provider, email) ==
    [Account(email, None, TRUE, provider)
        EXCEPT !.oauth_id = SubjectOf(provider, email)]

\* history of an account created through origin: the page or API
\* registration or an identity provider's callback
How(origin) == [origin |-> origin, linked |-> FALSE]

\* the email address of the account the initial state holds for user u
EmailOf(u) == "user" \o ToString(u)

\* db.session.query(User).filter_by(email=email)
ByEmail(email) == {u \in DOMAIN accounts : accounts[u].email = email}

\* the primary key the database assigns to a new user row
NextUserId ==
    IF DOMAIN accounts = {} THEN 1
    ELSE (CHOOSE m \in DOMAIN accounts : \A u \in DOMAIN accounts : u <= m) + 1

\* lifetimes in hours: timedelta(hours=24), timedelta(days=30)
AccessLife == 24
RefreshLife == 720

\* jwt.encode(payload, SECRET_KEY): a token signed with the server's key
Token(type, user_id, iat, exp) ==
    [type |-> type, user_id |-> user_id, iat |-> iat, exp |-> exp, sig |-> TRUE]

\* generate_access_token: issued-at and expiry from dt.datetime.now()
generate_access_token(user_id) ==
    Token("access", user_id, clock + tz, clock + tz + AccessLife)

\* generate_refresh_token: issued-at and expiry from dt.datetime.utcnow()
generate_refresh_token(user_id) ==
    Token("refresh", user_id, clock, clock + RefreshLife)

\* a token that is not signed with the server's key
Forged(type, user_id) ==
    [type |-> type, user_id |-> user_id, iat |-> 0, exp |-> RefreshLife,
     sig |-> FALSE]

\* no token in the request
NoToken == [type |-> "none", user_id |-> 0, iat |-> 0, exp |-> 0, sig |-> FALSE]

\* decode_token(token) returns a payload: the signature verifies and the
\* expiry lies in the future
Decodes(token) == token.sig /\ clock < token.exp

\* ------------------------------------------------ maintenance scripts
\* NULL in a column of ids
NullId == 0

\* a row of the user table as the scripts see it
UserRow(email, email_verified) ==
    [email |-> email, email_verified |-> email_verified]

\* a row of the milk table as the scripts see it: data stands for the
\* columns date, milk_qty, cost and month_year; user_id is NullId when the
\* column is missing or holds NULL
OwnedRow(data, user_id) == [data |-> data, user_id |-> user_id]

\* a database: the user and milk tables by primary key, whether milk has
\* the column user_id and whether it is NOT NULL, the columns added to user,
\* the last values of the id sequences, and whether milk_new exists
Database(user_rows, milk_rows, user_id_col) ==
    [user |-> user_rows, milk |-> milk_rows, user_id_col |-> user_id_col,
     not_null |-> FALSE, user_cols |-> {}, seq |-> [user |-> 0, milk |-> 0]]

\* a database whose tables are empty
EmptyDb == Database(<<>>, <<>>, TRUE)

\* no script is running
NoRun ==
    [script |-> "none", pc |-> "done", confirmed |-> FALSE, result |-> "none",
     before |-> EmptyDb, locals |-> <<>>]

\* a run of script at position pc that started from the database before
Run(script, pc, confirmed, before) ==
    [script |-> script, pc |-> pc, confirmed |-> confirmed, result |-> "none",
     before |-> before, locals |-> <<>>]

\* the run has ended with result
Ended(result) == [run EXCEPT !.pc = "done", !.result = result]

\* the state in which no maintenance script has run
ScriptsIdle ==
    /\ local = EmptyDb
    /\ remote = EmptyDb
    /\ run = NoRun

\* the frame of a script's step: the application is not running
NoAppChange ==
    /\ UNCHANGED <<users, milk, nextId, day, last, lw, lcw, pend>>
    /\ UNCHANGED authVars

\* the answers an operator types at a y/n prompt
Answers == {"y", "n", ""}

\* ------------------------------------------------------------ initial state
Init ==
    /\ users = [u \in UserIds |-> NewUser]
    /\ milk = <<>>
    /\ nextId = 1
    /\ day = 1
    /\ last = Resp("none", 0, 0, "none", NoDate, {})
    /\ lw = <<>>
    /\ lcw = <<>>
    /\ pend = [w \in Workers |-> Idle]
    /\ accounts = [u \in UserIds |-> OAuthAccount("google", EmailOf(u))]
    /\ session = 0
    /\ issued = {}
    /\ clock = 0
    /\ tz = 0
    /\ ScriptsIdle
    /\ latest = <<>>
    /\ mail = {}
    /\ how = [u \in UserIds |-> How("google")]

\* ------------------------------------------------------------ page routes
\* the existence check and insert shared by the page and the API add flow
AddCommit(op, u, qty, r) ==
    LET ex == Existing(u, r.date) IN
    IF Cardinality(ex) > 1 THEN
        \* scalar_one_or_none() raises MultipleResultsFound
        /\ last' = AddResp(op, u, 0, "error", r, {})
        /\ NoTableChange
    ELSE IF ex # {} THEN
        /\ last' = AddResp(op, u, 0, "conflict", r, {})
        /\ NoTableChange
    ELSE
        /\ InsertRow(MilkRow(r.date, r.month_year, qty,
                             FMul(qty, PriceOf(u)), u))
        /\ last' = AddResp(op, u, nextId, "ok", r, {})

\* POST /add
add(u, number, date_raw) ==
    LET raw == IF number.k = "none" THEN NumStr(0) ELSE number IN
    /\ IF ~FloatOk(raw) THEN
           /\ last' = Resp("add", u, 0, "invalid", NoDate, {})
           /\ NoTableChange
       ELSE AddCommit("add", u, FloatOf(raw), ResolveDate(date_raw, day))
    /\ UNCHANGED <<users, day, pend>>
    /\ UNCHANGED <<authVars, scriptVars>>

\* edit with a commit of the pending date change when the quantity is refused
editCommitsDate(u, id, number, date_raw) ==
    /\ IF ~Owns(u, id) THEN
           /\ last' = Resp("edit", u, id, "notfound", NoDate, {})
           /\ NoTableChange
       ELSE
           LET old == milk[id]
               dated == IF Len(date_raw) > 0 /\ ParseOk(date_raw)
                        THEN [old EXCEPT !.date = FmtDate(Parse(date_raw)),
                                         !.month_year = FmtMonthYear(Parse(date_raw))]
                        ELSE old
               raw == IF number.k = "none" THEN Num(0) ELSE number
           IN IF ~FloatOk(raw) THEN
                  /\ last' = Resp("edit", u, id, "invalid", NoDate, {})
                  /\ UpdateRow(id, dated, FALSE)
              ELSE
                  /\ UpdateRow(id, [dated EXCEPT !.milk_qty = FloatOf(raw),
                                      !.cost = FMul(FloatOf(raw), PriceOf(u))],
                               TRUE)
                  /\ last' = Resp("edit", u, id, "ok", dated.date, {})
    /\ UNCHANGED <<users, day, pend>>
    /\ UNCHANGED <<authVars, scriptVars>>

\* POST /edit
edit(u, id, number, date_raw) ==
    /\ IF ~Owns(u, id) THEN
           /\ last' = Resp("edit", u, id, "notfound", NoDate, {})
           /\ NoTableChange
       ELSE
           LET old == milk[id]
               dated == IF Len(date_raw) > 0 /\ ParseOk(date_raw)
                        THEN [old EXCEPT !.date = FmtDate(Parse(date_raw)),
                                         !.month_year = FmtMonthYear(Parse(date_raw))]
                        ELSE old
               raw == IF number.k = "none" THEN Num(0) ELSE number
           IN IF ~FloatOk(raw) THEN
                  \* redirect without commit: the session is discarded
                  /\ last' = Resp("edit", u, id, "invalid", NoDate, {})
                  /\ NoTableChange
              ELSE
                  /\ UpdateRow(id, [dated EXCEPT !.milk_qty = FloatOf(raw),
                                      !.cost = FMul(FloatOf(raw), PriceOf(u))],
                               TRUE)
                  /\ last' = Resp("edit", u, id, "ok", dated.date, {})
    /\ UNCHANGED <<users, day, pend>>
    /\ UNCHANGED <<authVars, scriptVars>>

\* GET /edit
edit_form(u, id) ==
    /\ last' = IF Owns(u, id) THEN Resp("edit_form", u, id, "ok", NoDate, {id})
               ELSE Resp("edit_form", u, id, "notfound", NoDate, {})
    /\ NoTableChange
    /\ UNCHANGED <<users, day, pend>>
    /\ UNCHANGED <<authVars, scriptVars>>

\* GET /delete
delete_data(u, id) ==
    /\ IF ~Owns(u, id) THEN
           /\ last' = Resp("delete", u, id, "notfound", NoDate, {})
           /\ NoTableChange
       ELSE
           /\ DeleteRow(id)
           /\ last' = Resp("delete", u, id, "ok", NoDate, {})
    /\ UNCHANGED <<users, day, pend>>
    /\ UNCHANGED <<authVars, scriptVars>>

\* GET /
home(u) ==
    /\ last' = IF u \in DOMAIN users
               THEN ListResp("home", u, "ok", Listing(OwnedBy(u)))
               ELSE Resp("home", u, 0, "nouser", NoDate, {})
    /\ NoTableChange
    /\ UNCHANGED <<users, day, pend>>
    /\ UNCHANGED <<authVars, scriptVars>>

\* Recalculate without the user_id filter
RecalculateAll(u, new_price) ==
    /\ milk' = [i \in DOMAIN milk |->
                 [milk[i] EXCEPT !.cost = FMul(milk[i].milk_qty, new_price)]]
    /\ lw' = [i \in DOMAIN lw |-> IF milk[i].user_id = u THEN new_price ELSE lw[i]]
    /\ lcw' = [i \in DOMAIN lcw |-> IF milk[i].user_id = u THEN new_price ELSE lcw[i]]
    /\ UNCHANGED nextId

\* Recalculate multiplying the old cost instead of the quantity
RecalculateCost(u, new_price) ==
    /\ milk' = [i \in DOMAIN milk |->
                 IF milk[i].user_id = u
                 THEN [milk[i] EXCEPT !.cost = FMul(milk[i].cost, new_price)]
                 ELSE milk[i]]
    /\ lw' = [i \in DOMAIN lw |-> IF milk[i].user_id = u THEN new_price ELSE lw[i]]
    /\ lcw' = [i \in DOMAIN lcw |-> IF milk[i].user_id = u THEN new_price ELSE lcw[i]]
    /\ UNCHANGED nextId

\* for record in milk_records: record.cost = record.milk_qty * new_price
Recalculate(u, new_price) ==
    /\ milk' = [i \in DOMAIN milk |->
                 IF milk[i].user_id = u
                 THEN [milk[i] EXCEPT !.cost = FMul(milk[i].milk_qty, new_price)]
                 ELSE milk[i]]
    /\ lw' = [i \in DOMAIN lw |-> IF milk[i].user_id = u THEN new_price ELSE lw[i]]
    /\ lcw' = [i \in DOMAIN lcw |-> IF milk[i].user_id = u THEN new_price ELSE lcw[i]]
    /\ UNCHANGED nextId

\* POST /settings
settings(u, milk_price, currency, currency_symbol, recalculate) ==
    /\ IF u \notin DOMAIN users THEN
           /\ last' = Resp("settings", u, 0, "nouser", NoDate, {})
           /\ NoTableChange
           /\ UNCHANGED users
       ELSE IF ~FloatOk(milk_price) THEN
           /\ last' = Resp("settings", u, 0, "invalid", NoDate, {})
           /\ NoTableChange
           /\ UNCHANGED users
       ELSE IF FLeZero(FloatOf(milk_price)) THEN
           /\ last' = Resp("settings", u, 0, "rejected", NoDate, {})
           /\ NoTableChange
           /\ UNCHANGED users
       ELSE
           LET new_price == FloatOf(milk_price)
               old_price == users[u].price
           IN /\ users' = [users EXCEPT ![u] =
                             [price |-> new_price,
                              currency |-> IF currency = "" THEN "INR" ELSE currency,
                              symbol |-> IF currency_symbol = "" THEN "Rs"
                                         ELSE currency_symbol]]
              /\ IF recalculate /\ FNe(old_price, new_price) THEN
                     /\ Recalculate(u, new_price)
                     /\ last' = Resp("settings", u, 0, "recalculated", NoDate, {})
                 ELSE
                     /\ NoTableChange
                     /\ last' = Resp("settings", u, 0, "ok", NoDate, {})
    /\ UNCHANGED <<day, pend>>
    /\ UNCHANGED <<authVars, scriptVars>>

\* ------------------------------------------------------------- JSON routes
\* GET /api/milk/records
api_get_milk_records(u) ==
    /\ u \in DOMAIN users
    /\ last' = ListResp("api_get", u, "200", Listing(OwnedBy(u)))
    /\ NoTableChange
    /\ UNCHANGED <<users, day, pend>>
    /\ UNCHANGED <<authVars, scriptVars>>

\* POST /api/milk/records
api_add_milk_record(u, milk_qty, date_raw) ==
    /\ u \in DOMAIN users
    /\ IF ~Truthy(milk_qty) THEN
           /\ last' = Resp("api_add", u, 0, "400", NoDate, {})
           /\ NoTableChange
       ELSE IF ~FloatOk(milk_qty) THEN
           /\ last' = Resp("api_add", u, 0, "400", NoDate, {})
           /\ NoTableChange
       ELSE
           LET r == ResolveDate(date_raw, day)
               qty == FloatOf(milk_qty)
               ex == Existing(u, r.date)
           IN IF Cardinality(ex) > 1 THEN
                  /\ last' = AddResp("api_add", u, 0, "500", r, {})
                  /\ NoTableChange
              ELSE IF ex # {} THEN
                  /\ last' = AddResp("api_add", u, 0, "409", r, {})
                  /\ NoTableChange
              ELSE
                  /\ InsertRow(MilkRow(r.date, r.month_year, qty,
                                       FMul(qty, users[u].price), u))
                  /\ last' = AddResp("api_add", u, nextId, "201", r, {nextId})
    /\ UNCHANGED <<users, day, pend>>
    /\ UNCHANGED <<authVars, scriptVars>>

\* PUT /api/milk/records/<id>
api_update_milk_record(u, record_id, milk_qty, date_raw) ==
    /\ u \in DOMAIN users
    /\ IF ~Owns(u, record_id) THEN
           /\ last' = Resp("api_update", u, record_id, "404", NoDate, {})
           /\ NoTableChange
       ELSE IF milk_qty.k # "none" /\ ~FloatOk(milk_qty) THEN
           /\ last' = Resp("api_update", u, record_id, "400", NoDate, {})
           /\ NoTableChange
       ELSE
           LET old == milk[record_id]
               hasQty == milk_qty.k # "none"
               hasDate == Len(date_raw) > 0 /\ ParseOk(date_raw)
               withQty == IF hasQty
                          THEN [old EXCEPT !.milk_qty = FloatOf(milk_qty),
                                           !.cost = FMul(FloatOf(milk_qty),
                                                         users[u].price)]
                          ELSE old
               withDate == IF hasDate
                           THEN [withQty EXCEPT
                                   !.date = FmtDate(Parse(date_raw)),
                                   !.month_year = FmtMonthYear(Parse(date_raw))]
                           ELSE withQty
           IN /\ IF hasQty \/ hasDate
                 THEN UpdateRow(record_id, withDate, hasQty)
                 ELSE NoTableChange
              /\ last' = Resp("api_update", u, record_id, "200", withDate.date,
                              {record_id})
    /\ UNCHANGED <<users, day, pend>>
    /\ UNCHANGED <<authVars, scriptVars>>

\* DELETE /api/milk/records/<id>
api_delete_milk_record(u, record_id) ==
    /\ u \in DOMAIN users
    /\ IF ~Owns(u, record_id) THEN
           /\ last' = Resp("api_delete", u, record_id, "404", NoDate, {})
           /\ NoTableChange
       ELSE
           /\ DeleteRow(record_id)
           /\ last' = Resp("api_delete", u, record_id, "200", NoDate, {})
    /\ UNCHANGED <<users, day, pend>>
    /\ UNCHANGED <<authVars, scriptVars>>

\* PUT /api/settings, the user row and the response; "" is a key the body
\* does not carry
ApiSettingsUser(u, milk_price_per_litre, currency, currency_symbol) ==
    IF milk_price_per_litre.k # "none"
       /\ (~FloatOk(milk_price_per_litre)
           \/ FLeZero(FloatOf(milk_price_per_litre))) THEN
        /\ last' = Resp("api_settings", u, 0, "400", NoDate, {})
        /\ UNCHANGED users
    ELSE
        /\ users' = [users EXCEPT ![u] =
               [price |-> IF milk_price_per_litre.k # "none"
                          THEN FloatOf(milk_price_per_litre) ELSE @.price,
                currency |-> IF currency # "" THEN currency ELSE @.currency,
                symbol |-> IF currency_symbol # "" THEN currency_symbol
                           ELSE @.symbol]]
        /\ last' = Resp("api_settings", u, 0, "200", NoDate, {})

\* api_user_settings recomputing the caller's rows as the page route does
api_user_settings_recalc(u, milk_price_per_litre, currency, currency_symbol) ==
    /\ u \in DOMAIN users
    /\ ApiSettingsUser(u, milk_price_per_litre, currency, currency_symbol)
    /\ IF milk_price_per_litre.k # "none" /\ FloatOk(milk_price_per_litre)
          /\ ~FLeZero(FloatOf(milk_price_per_litre))
       THEN Recalculate(u, FloatOf(milk_price_per_litre))
       ELSE NoTableChange
    /\ UNCHANGED <<day, pend>>
    /\ UNCHANGED <<authVars, scriptVars>>

\* PUT /api/settings
api_user_settings(u, milk_price_per_litre, currency, currency_symbol) ==
    /\ u \in DOMAIN users
    /\ ApiSettingsUser(u, milk_price_per_litre, currency, currency_symbol)
    /\ NoTableChange
    /\ UNCHANGED <<day, pend>>
    /\ UNCHANGED <<authVars, scriptVars>>

\* ------------------------------------------------ page routes: accounts
\* the response of an authentication request: the token the request
\* presented and the tokens the response carries
AuthResp(op, caller, status, token, access_token, refresh_token) ==
    [op |-> op, caller |-> caller, id |-> 0, status |-> status,
     date |-> NoDate, rows |-> {}, dflt |-> FALSE, token |-> token,
     access_token |-> access_token, refresh_token |-> refresh_token]

\* Verified for every account
VerifiedAlways(u) == TRUE

\* user.email_verified
Verified(u) == accounts[u].email_verified

\* max_age of a verification token: 3600 seconds, in hours
expiration == 1

\* generate_verification_token(email): the address signed with a timestamp
VToken(email) == [email |-> email, ts |-> clock, sig |-> TRUE]

\* a verification token with altered content: its signature does not verify
Altered(token) == [token EXCEPT !.sig = FALSE]

\* VerifyOk without the age limit
VerifyOkAnyAge(token) == token.sig

\* verify_token(token) returns the address: the signature verifies and the
\* token is at most expiration old
VerifyOk(token) == token.sig /\ clock - token.ts <= expiration

\* the response of a page request about an account
PageResp(op, caller, status) == Resp(op, caller, 0, status, NoDate, {})

\* the frame of a page request that changes no table
NoAccountChange == UNCHANGED <<users, accounts, mail, how>>

\* POST /login
login(email, password) ==
    /\ IF session # 0 THEN
           /\ last' = PageResp("login", session, "home")
           /\ UNCHANGED session
       ELSE IF \E u \in ByEmail(email) :
                  /\ accounts[u].password_hash # None
                  /\ check_password_hash(accounts[u].password_hash, password)
       THEN LET u == CHOOSE x \in ByEmail(email) : TRUE IN
            IF ~Verified(u) THEN
                /\ last' = PageResp("login", u, "unverified")
                /\ UNCHANGED session
            ELSE
                /\ session' = u
                /\ last' = PageResp("login", u, "ok")
       ELSE
           /\ last' = PageResp("login", 0, "invalid")
           /\ UNCHANGED session
    /\ NoAccountChange
    /\ NoTableChange
    /\ UNCHANGED <<day, pend, issued, clock, tz, scriptVars, latest>>

\* register with the account row written only once the message is delivered
registerIfSent(email, password, confirm_password, sent) ==
    /\ IF session # 0 THEN
           /\ last' = PageResp("register", session, "home")
           /\ NoAccountChange
       ELSE IF password # confirm_password THEN
           /\ last' = PageResp("register", 0, "mismatch")
           /\ NoAccountChange
       ELSE IF ByEmail(email) # {} THEN
           /\ last' = PageResp("register", 0, "exists")
           /\ NoAccountChange
       ELSE IF ~sent THEN
           /\ last' = PageResp("register", 0, "warning")
           /\ NoAccountChange
       ELSE
           /\ NextUserId <= NumUsers
           /\ accounts' = Put(accounts, NextUserId,
                              Account(email, Hash(password), FALSE, ""))
           /\ users' = Put(users, NextUserId, NewUser)
           /\ how' = Put(how, NextUserId, How("page"))
           /\ mail' = mail \cup {VToken(email)}
           /\ last' = PageResp("register", NextUserId, "ok")
    /\ NoTableChange
    /\ UNCHANGED <<day, pend, session, issued, clock, tz, scriptVars, latest>>

\* POST /register; sent: send_verification_email delivered the message
register(email, password, confirm_password, sent) ==
    /\ IF session # 0 THEN
           /\ last' = PageResp("register", session, "home")
           /\ NoAccountChange
       ELSE IF password # confirm_password THEN
           /\ last' = PageResp("register", 0, "mismatch")
           /\ NoAccountChange
       ELSE IF ByEmail(email) # {} THEN
           /\ last' = PageResp("register", 0, "exists")
           /\ NoAccountChange
       ELSE
           /\ NextUserId <= NumUsers
           /\ accounts' = Put(accounts, NextUserId,
                              Account(email, Hash(password), FALSE, ""))
           /\ users' = Put(users, NextUserId, NewUser)
           /\ how' = Put(how, NextUserId, How("page"))
           /\ mail' = IF sent THEN mail \cup {VToken(email)} ELSE mail
           /\ last' = PageResp("register", NextUserId,
                               IF sent THEN "ok" ELSE "warning")
    /\ NoTableChange
    /\ UNCHANGED <<day, pend, session, issued, clock, tz, scriptVars, latest>>

\* GET /verify-email/<token>
verify_email(token) ==
    /\ IF ~VerifyOk(token) THEN
           /\ last' = AuthResp("verify_email", 0, "invalid", token,
                               NoToken, NoToken)
           /\ UNCHANGED <<accounts, how>>
       ELSE IF ByEmail(token.email) = {} THEN
           /\ last' = AuthResp("verify_email", 0, "nouser", token,
                               NoToken, NoToken)
           /\ UNCHANGED <<accounts, how>>
       ELSE
           LET u == CHOOSE x \in ByEmail(token.email) : TRUE IN
           /\ accounts' = [accounts EXCEPT ![u].email_verified = TRUE]
           /\ how' = [how EXCEPT ![u].linked = TRUE]
           /\ last' = AuthResp("verify_email", u, "ok", token, NoToken, NoToken)
    /\ NoTableChange
    /\ UNCHANGED <<users, day, pend, session, issued, clock, tz, scriptVars, latest, mail>>

\* oauth_callback linking the provider to an existing account
oauth_callbackLinking(provider, email) ==
    /\ IF ByEmail(email) # {} THEN
           /\ session' = CHOOSE x \in ByEmail(email) : TRUE
           /\ accounts' = [accounts EXCEPT
                             ![session'].oauth_provider = provider,
                             ![session'].oauth_id = SubjectOf(provider, email),
                             ![session'].email_verified = TRUE]
           /\ last' = PageResp(provider, session', "ok")
           /\ UNCHANGED <<users, how>>
       ELSE
           /\ NextUserId <= NumUsers
           /\ accounts' = Put(accounts, NextUserId,
                              OAuthAccount(provider, email))
           /\ users' = Put(users, NextUserId, NewUser)
           /\ how' = Put(how, NextUserId, How(provider))
           /\ session' = NextUserId
           /\ last' = PageResp(provider, NextUserId, "ok")
    /\ NoTableChange
    /\ UNCHANGED <<day, pend, issued, clock, tz, scriptVars, latest, mail>>

\* GET /callback/google and GET /callback/github: the provider vouches for
\* email; an account is created when none has the address
oauth_callback(provider, email) ==
    /\ IF ByEmail(email) # {} THEN
           /\ session' = CHOOSE x \in ByEmail(email) : TRUE
           /\ last' = PageResp(provider, session', "ok")
           /\ UNCHANGED <<users, accounts, how>>
       ELSE
           /\ NextUserId <= NumUsers
           /\ accounts' = Put(accounts, NextUserId,
                              OAuthAccount(provider, email))
           /\ users' = Put(users, NextUserId, NewUser)
           /\ how' = Put(how, NextUserId, How(provider))
           /\ session' = NextUserId
           /\ last' = PageResp(provider, NextUserId, "ok")
    /\ NoTableChange
    /\ UNCHANGED <<day, pend, issued, clock, tz, scriptVars, latest, mail>>

\* GET /logout
logout ==
    /\ session' = 0
    /\ last' = PageResp("logout", session, "ok")
    /\ NoTableChange
    /\ UNCHANGED <<users, day, pend, accounts, issued, clock, tz, scriptVars, latest,
                   mail, how>>

\* ------------------------------------------- page routes behind the login
\* LoggedIn for every request
LoggedInAlways == TRUE

\* 'user_id' in session
LoggedIn == session # 0

\* login_required: a request without user_id in the session is redirected
\* to login before the handler runs
login_required(op) ==
    /\ last' = PageResp(op, 0, "login")
    /\ UNCHANGED <<users, milk, nextId, day, lw, lcw, pend>>
    /\ UNCHANGED <<authVars, scriptVars>>

\* GET /
home_request ==
    IF LoggedIn THEN home(session) ELSE login_required("home")

\* POST /add
add_request(number, date_raw) ==
    IF LoggedIn THEN add(session, number, date_raw) ELSE login_required("add")

\* POST /edit
edit_request(id, number, date_raw) ==
    IF LoggedIn THEN edit(session, id, number, date_raw)
    ELSE login_required("edit")

\* GET /delete
delete_request(id) ==
    IF LoggedIn THEN delete_data(session, id) ELSE login_required("delete")

\* POST /settings
settings_request(milk_price, currency, currency_symbol, recalculate) ==
    IF LoggedIn
    THEN settings(session, milk_price, currency, currency_symbol, recalculate)
    ELSE login_required("settings")

\* ---------------------------------- the refactored application's routes
\* class User of models/models.py: the settings columns and their defaults;
\* the default of currency_symbol is a three-character literal, the bytes of
\* the rupee sign read in a one-byte encoding ("Rs-mojibake" stands for it)
NewUserRefactored ==
    [price |-> F(DefaultPrice), currency |-> "INR", symbol |-> "Rs-mojibake"]

\* the tables and the session after the refactored POST /register
refactored_register(email, password, confirm_password) ==
    IF session # 0 \/ password # confirm_password \/ ByEmail(email) # {} THEN
        [users |-> users, accounts |-> accounts, session |-> session]
    ELSE
        [users |-> Put(users, NextUserId, NewUserRefactored),
         accounts |-> Put(accounts, NextUserId,
                          Account(email, Hash(password), TRUE, "")),
         session |-> session]

\* the tables and the session after the refactored GET /callback/google and
\* GET /callback/github
refactored_oauth_callback(provider, email) ==
    IF ByEmail(email) # {} THEN
        [users |-> users, accounts |-> accounts,
         session |-> CHOOSE x \in ByEmail(email) : TRUE]
    ELSE
        [users |-> Put(users, NextUserId, NewUserRefactored),
         accounts |-> Put(accounts, NextUserId,
                          OAuthAccount(provider, email)),
         session |-> NextUserId]

\* ------------------------------------------------------- token API: auth
\* a response without tokens that changes no account
Refuse(op, caller, status, token) ==
    /\ last' = AuthResp(op, caller, status, token, NoToken, NoToken)
    /\ UNCHANGED <<users, accounts, issued, latest, how>>

\* the response that carries a new access and refresh token for user u.  The
\* handler's "user.refresh_token = refresh_token" sets an attribute that
\* app.py's User class (lines 96-114) does not map to a column, so the
\* commit that follows writes nothing to the row
IssuePair(op, u, status) ==
    LET access_token == generate_access_token(u)
        refresh_token == generate_refresh_token(u)
    IN /\ last' = AuthResp(op, u, status, NoToken, access_token, refresh_token)
       /\ issued' = issued \cup {access_token, refresh_token}
       /\ latest' = Put(latest, u, refresh_token)

\* POST /api/auth/register
api_register(email, password) ==
    /\ IF email = Missing \/ password = Missing THEN
           Refuse("api_register", 0, "400", NoToken)
       ELSE IF ByEmail(email) # {} THEN
           Refuse("api_register", 0, "409", NoToken)
       ELSE
           /\ NextUserId <= NumUsers
           /\ accounts' = Put(accounts, NextUserId,
                              Account(email, Hash(password), TRUE, ""))
           /\ users' = Put(users, NextUserId, NewUser)
           /\ how' = Put(how, NextUserId, How("api"))
           /\ IssuePair("api_register", NextUserId, "201")
    /\ NoTableChange
    /\ UNCHANGED <<day, pend, session, clock, tz, scriptVars, mail>>

\* POST /api/auth/login
api_login(email, password) ==
    /\ IF email = Missing \/ password = Missing THEN
           Refuse("api_login", 0, "400", NoToken)
       ELSE IF ByEmail(email) = {} THEN
           Refuse("api_login", 0, "401", NoToken)
       ELSE
           LET u == CHOOSE x \in ByEmail(email) : TRUE
               user == accounts[u]
           IN IF user.password_hash = None THEN
                  Refuse("api_login", u, "401", NoToken)
              ELSE IF ~check_password_hash(user.password_hash, password) THEN
                  Refuse("api_login", u, "401", NoToken)
              ELSE IF ~Verified(u) THEN
                  Refuse("api_login", u, "403", NoToken)
              ELSE
                  /\ IssuePair("api_login", u, "200")
                  /\ UNCHANGED <<users, accounts, how>>
    /\ NoTableChange
    /\ UNCHANGED <<day, pend, session, clock, tz, scriptVars, mail>>

\* POST /api/auth/refresh.  The row is loaded through app.py's User class,
\* which has no refresh_token attribute: reading user.refresh_token raises
\* AttributeError and the request ends with status 500
api_refresh_token(refresh_token) ==
    /\ IF refresh_token = NoToken THEN
           Refuse("api_refresh", 0, "400", refresh_token)
       ELSE IF ~Decodes(refresh_token) \/ refresh_token.type # "refresh" THEN
           Refuse("api_refresh", 0, "401", refresh_token)
       ELSE IF refresh_token.user_id \notin DOMAIN accounts THEN
           Refuse("api_refresh", 0, "401", refresh_token)
       ELSE
           Refuse("api_refresh", refresh_token.user_id, "500", refresh_token)
    /\ NoTableChange
    /\ UNCHANGED <<day, pend, session, clock, tz, scriptVars, mail>>

\* TokenGuard refusing the tokens of a user who has logged out since the last
\* login
TokenGuardRevoking(token) ==
    IF token = NoToken THEN "missing"
    ELSE IF ~Decodes(token) THEN "invalid"
    ELSE IF token.type # "access" THEN "type"
    ELSE IF token.user_id \notin DOMAIN accounts THEN "notfound"
    ELSE IF token.user_id \notin DOMAIN latest THEN "revoked"
    ELSE "ok"

\* TokenGuard without the check of the payload's type
TokenGuardAnyType(token) ==
    IF token = NoToken THEN "missing"
    ELSE IF ~Decodes(token) THEN "invalid"
    ELSE IF token.user_id \notin DOMAIN accounts THEN "notfound"
    ELSE "ok"

\* token_required: the outcome of the guard for the token a request carries
TokenGuard(token) ==
    IF token = NoToken THEN "missing"
    ELSE IF ~Decodes(token) THEN "invalid"
    ELSE IF token.type # "access" THEN "type"
    ELSE IF token.user_id \notin DOMAIN accounts THEN "notfound"
    ELSE "ok"

\* @token_required: the request of a token the guard refuses ends with
\* status 401 before the handler runs
token_required(op, token) ==
    /\ last' = AuthResp(op, 0, "401", token, NoToken, NoToken)
    /\ UNCHANGED <<users, milk, nextId, day, lw, lcw, pend>>
    /\ UNCHANGED <<authVars, scriptVars>>

\* api_logout, the handler: user.refresh_token = None; commit
Logout(u) ==
    /\ accounts' = [accounts EXCEPT ![u].refresh_token = None]
    /\ last' = AuthResp("api_logout", u, "200", NoToken, NoToken, NoToken)
    /\ latest' = Drop(latest, u)
    /\ NoTableChange
    /\ UNCHANGED <<users, day, pend, session, issued, clock, tz, scriptVars, mail, how>>

\* POST /api/auth/logout
api_logout(token) ==
    IF TokenGuard(token) = "ok" THEN Logout(token.user_id)
    ELSE token_required("api_logout", token)

\* api_get_current_user, the handler: the caller's own row
Me(u) ==
    /\ last' = AuthResp("api_me", u, "200", NoToken, NoToken, NoToken)
    /\ NoTableChange
    /\ UNCHANGED <<users, day, pend>>
    /\ UNCHANGED <<authVars, scriptVars>>

\* GET /api/auth/me
api_get_current_user(token) ==
    IF TokenGuard(token) = "ok" THEN Me(token.user_id)
    ELSE token_required("api_me", token)

\* ------------------------------------------- token API: the guard's request
\* the Authorization header of a request: absent, a value without a space
\* (split(" ")[1] raises IndexError), or "Bearer <t>"; Bearer(NoToken) is a
\* value whose second part is empty
NoHeader == [k |-> "none", t |-> NoToken]
Malformed == [k |-> "malformed", t |-> NoToken]
Bearer(t) == [k |-> "bearer", t |-> t]

\* Carried preferring the cookie
CarriedCookieFirst(header, cookie) ==
    IF cookie # NoToken THEN cookie ELSE header.t

\* the token the guard goes on with: the header's, and the access_token
\* cookie when the header gave none (cookie = NoToken: no such cookie)
Carried(header, cookie) ==
    IF header.k = "bearer" /\ header.t # NoToken THEN header.t ELSE cookie

\* decorated: the checks in their order
GuardOutcome(header, cookie) ==
    IF header.k = "malformed" THEN "format"
    ELSE TokenGuard(Carried(header, cookie))

\* jsonify({'message': ...}), 401
GuardResp(op, token, message) ==
    [op |-> op, caller |-> 0, status |-> "401", message |-> message,
     token |-> token]

\* decorated(*args, **kwargs) around GET /api/auth/me
decorated(header, cookie) ==
    IF GuardOutcome(header, cookie) = "ok"
    THEN Me(Carried(header, cookie).user_id)
    ELSE /\ last' = GuardResp("api_me", Carried(header, cookie),
                              GuardOutcome(header, cookie))
         /\ UNCHANGED <<users, milk, nextId, day, lw, lcw, pend>>
         /\ UNCHANGED <<authVars, scriptVars>>

\* time passes: the clock reaches hour t
Pass(t) ==
    /\ clock < t
    /\ clock' = t
    /\ last' = Resp("pass", 0, 0, "none", NoDate, {})
    /\ UNCHANGED <<users, milk, nextId, day, lw, lcw, pend>>
    /\ UNCHANGED <<accounts, session, issued, tz, scriptVars, latest, mail, how>>

\* ------------------------------------------------------ deleting a user
\* Cascade with a relationship that does not cascade the delete
CascadeNone(u) == {}

\* relationship('Milk', cascade='all, delete-orphan'): the Milk rows the ORM
\* deletes together with user u
Cascade(u) == OwnedBy(u)

\* db.session.delete(user); db.session.commit().  No route does this; it is
\* the ORM operation the relationship's cascade option is about
delete_user(u) ==
    /\ u \in DOMAIN users
    /\ users' = Drop(users, u)
    /\ accounts' = Drop(accounts, u)
    /\ how' = Drop(how, u)
    /\ latest' = Drop(latest, u)
    /\ milk' = [i \in DOMAIN milk \ Cascade(u) |-> milk[i]]
    /\ lw' = [i \in DOMAIN lw \ Cascade(u) |-> lw[i]]
    /\ lcw' = [i \in DOMAIN lcw \ Cascade(u) |-> lcw[i]]
    /\ last' = Resp("delete_user", u, 0, "ok", NoDate, OwnedBy(u))
    /\ UNCHANGED <<nextId, day, pend, session, issued, clock, tz, scriptVars, mail>>

\* ------------------------------------------- add requests handled in parallel
\* the quantity check of an add request: the page route defaults a missing
\* field to "0", the API refuses a missing or falsy one
AddNumber(op, number) ==
    IF op = "add" THEN (IF number.k = "none" THEN NumStr(0) ELSE number)
    ELSE number

AddNumberOk(op, number) ==
    IF op = "add" THEN FloatOk(AddNumber(op, number))
    ELSE Truthy(number) /\ FloatOk(number)

\* what an add request does under the rules of route op: it is rejected, or
\* it inserts row
AddOutcome(op, u, number, date_raw) ==
    IF ~AddNumberOk(op, number) THEN [rejected |-> TRUE, row |-> <<>>]
    ELSE LET r == ResolveDate(date_raw, day)
             qty == FloatOf(AddNumber(op, number))
         IN IF Existing(u, r.date) # {} THEN [rejected |-> TRUE, row |-> <<>>]
            ELSE [rejected |-> FALSE,
                  row |-> MilkRow(r.date, r.month_year, qty,
                                  FMul(qty, PriceOf(u)), u)]

\* an add request up to and including its existence check (app.py 550-584,
\* 869-904): worker w keeps the row it is about to insert
add_check(w, op, u, number, date_raw) ==
    /\ pend[w] = Idle
    /\ u \in DOMAIN users
    /\ IF ~AddNumberOk(op, number) THEN
           /\ last' = Resp(op, u, 0, IF op = "add" THEN "invalid" ELSE "400",
                           NoDate, {})
           /\ UNCHANGED pend
       ELSE
           LET r == ResolveDate(date_raw, day)
               qty == FloatOf(AddNumber(op, number))
               ex == Existing(u, r.date)
           IN IF Cardinality(ex) > 1 THEN
                  /\ last' = AddResp(op, u, 0,
                                     IF op = "add" THEN "error" ELSE "500", r, {})
                  /\ UNCHANGED pend
              ELSE IF ex # {} THEN
                  /\ last' = AddResp(op, u, 0,
                                     IF op = "add" THEN "conflict" ELSE "409",
                                     r, {})
                  /\ UNCHANGED pend
              ELSE
                  /\ pend' = [pend EXCEPT ![w] =
                        [pc |-> "checked", op |-> op, r |-> r,
                         row |-> MilkRow(r.date, r.month_year, qty,
                                         FMul(qty, PriceOf(u)), u)]]
                  /\ UNCHANGED last
    /\ NoTableChange
    /\ UNCHANGED <<users, day>>
    /\ UNCHANGED <<authVars, scriptVars>>

\* the insert and commit of an add request that passed its check
\* (app.py 586-594, 907-915)
add_insert(w) ==
    /\ pend[w] # Idle
    /\ InsertRow(pend[w].row)
    /\ last' = AddResp(pend[w].op, pend[w].row.user_id, nextId,
                       IF pend[w].op = "add" THEN "ok" ELSE "201", pend[w].r,
                       IF pend[w].op = "add" THEN {} ELSE {nextId})
    /\ pend' = [pend EXCEPT ![w] = Idle]
    /\ UNCHANGED <<users, day>>
    /\ UNCHANGED <<authVars, scriptVars>>

\* the server's clock reaches the next calendar day
Tick ==
    /\ day < MaxDay
    /\ day' = day + 1
    /\ last' = Resp("tick", 0, 0, "none", NoDate, {})
    /\ UNCHANGED <<users, milk, nextId, lw, lcw, pend>>
    /\ UNCHANGED <<authVars, scriptVars>>

\* ---------------------------------------------------------- request inputs
AddOps == {"add", "api_add"}
IdOps == {"edit", "edit_form", "delete", "api_update", "api_delete"}
RecordOps == AddOps \cup IdOps \cup {"home", "api_get"}
FormNumbers == {Absent, Text, NumStr(2)}
JsonNumbers == {Absent, Text, Num(0), Num(3)}
Dates == {NoDate, BadDate} \cup {Iso(Now(n)) : n \in 1..MaxDay}

\* ------------------------------------- specification: the record operations
Next ==
    \/ \E u \in UserIds, q \in FormNumbers, d \in Dates : add(u, q, d)
    \/ \E u \in UserIds, i \in RecordIds, q \in FormNumbers, d \in Dates :
           edit(u, i, q, d)
    \/ \E u \in UserIds, i \in RecordIds : edit_form(u, i)
    \/ \E u \in UserIds, i \in RecordIds : delete_data(u, i)
    \/ \E u \in UserIds : home(u)
    \/ \E u \in UserIds : api_get_milk_records(u)
    \/ \E u \in UserIds, q \in JsonNumbers, d \in Dates :
           api_add_milk_record(u, q, d)
    \/ \E u \in UserIds, i \in RecordIds, q \in JsonNumbers, d \in Dates :
           api_update_milk_record(u, i, q, d)
    \/ \E u \in UserIds, i \in RecordIds : api_delete_milk_record(u, i)
    \/ Tick

Spec == Init /\ [][Next]_vars

\* ------------------------------ specification: records and price settings
SettingsPrices == {Text, NumStr(0), NumStr(DefaultPrice), NumStr(OtherPrice)}
JsonPrices == {Absent, Num(0), Num(OtherPrice)}

NextSettings ==
    \/ \E u \in UserIds : add(u, NumStr(2), NoDate)
    \/ \E u \in UserIds, i \in RecordIds, q \in {Text, NumStr(3)} :
           edit(u, i, q, NoDate)
    \/ \E u \in UserIds, i \in RecordIds, q \in {Absent, Num(3)},
          d \in {NoDate, Iso(Now(MaxDay))} :
           api_update_milk_record(u, i, q, d)
    \/ \E u \in UserIds, i \in RecordIds : delete_data(u, i)
    \/ \E u \in UserIds, p \in SettingsPrices, r \in BOOLEAN :
           settings(u, p, "", "", r)
    \/ \E u \in UserIds, p \in JsonPrices : api_user_settings(u, p, "", "")

SpecSettings == Init /\ [][NextSettings]_vars

\* ------------------------------------- specification: the settings routes
Prices == {Absent, Text, NumStr(OtherPrice), NumStr(0), NumStr(-5), NanStr}
Currencies == {"", "USD"}
Symbols == {"", "$"}

NextPrice ==
    \/ \E u \in UserIds, p \in Prices, c \in Currencies, s \in Symbols,
          r \in BOOLEAN : settings(u, p, c, s, r)
    \/ \E u \in UserIds, p \in Prices, c \in Currencies, s \in Symbols :
           api_user_settings(u, p, c, s)

SpecPrice == Init /\ [][NextPrice]_vars

\* ----------------------------- specification: add requests handled in parallel
NextConc ==
    \/ \E w \in Workers, op \in AddOps, u \in UserIds, q \in {Text, NumStr(2)},
          d \in Dates : add_check(w, op, u, q, d)
    \/ \E w \in Workers : add_insert(w)
    \/ \E u \in UserIds, i \in RecordIds : delete_data(u, i)
    \/ Tick

SpecConc == Init /\ [][NextConc]_vars

\* ---------------------------------- specification: the token API's accounts
\* an empty user table
InitAuth ==
    /\ users = <<>>
    /\ accounts = <<>>
    /\ milk = <<>>
    /\ nextId = 1
    /\ day = 1
    /\ last = Resp("none", 0, 0, "none", NoDate, {})
    /\ lw = <<>>
    /\ lcw = <<>>
    /\ pend = [w \in Workers |-> Idle]
    /\ session = 0
    /\ issued = {}
    /\ clock = 0
    /\ tz = 0
    /\ ScriptsIdle
    /\ latest = <<>>
    /\ mail = {}
    /\ how = <<>>

Emails == {EmailOf(u) : u \in UserIds}
Passwords == {"pw1", "pw2"}

\* the tokens a client can present: those it was handed, one that is not
\* signed by the server, and none
Presentable ==
    issued \cup {Forged("refresh", 1), Forged("access", 1), NoToken}

NextToken ==
    \/ \E e \in Emails \cup {Missing}, p \in {"pw1", Missing} : api_register(e, p)
    \/ \E e \in Emails \cup {Missing}, p \in Passwords \cup {Missing} :
           api_login(e, p)
    \/ \E t \in Presentable : api_refresh_token(t)
    \/ \E t \in Presentable : api_logout(t)
    \/ \E t \in Presentable : api_get_current_user(t)
    \/ \E t \in {AccessLife, RefreshLife} : Pass(t)

SpecToken == InitAuth /\ [][NextToken]_vars

\* ------------------------------ specification: password login and its gate
\* the verification tokens a client can present: those delivered, altered
\* copies of them, and one signed by somebody else
Links == mail \cup {Altered(t) : t \in mail}
              \cup {[email |-> EmailOf(1), ts |-> 0, sig |-> FALSE]}

NextLogin ==
    \/ \E e \in Emails, p \in Passwords \cup {Missing} : login(e, p)
    \/ \E e \in Emails, p \in {"pw1"}, c \in {"pw1", "pw2"}, sent \in BOOLEAN :
           register(e, p, c, sent)
    \/ \E t \in Links : verify_email(t)
    \/ \E e \in Emails : oauth_callback("google", e)
    \/ \E e \in Emails : oauth_callback("github", e)
    \/ logout
    \/ \E e \in Emails \cup {Missing}, p \in Passwords \cup {Missing} :
           api_login(e, p)
    \/ \E e \in Emails : api_register(e, "pw1")
    \/ \E t \in {1, 2} : Pass(t)

SpecLogin == InitAuth /\ [][NextLogin]_vars

\* ------------------------------------ specification: users are deleted
NextDelete ==
    \/ \E u \in DOMAIN users, q \in {NumStr(2)}, d \in Dates : add(u, q, d)
    \/ \E u \in DOMAIN users, i \in RecordIds : delete_data(u, i)
    \/ \E u \in UserIds : delete_user(u)
    \/ Tick

SpecDelete == Init /\ [][NextDelete]_vars

\* ------------------------------------ specification: the totals of listings
\* a quantity whose cost at the default price is large enough for the sum
\* with a small cost to round
BigQty == 2^(Precision - 1)

\* user 1 has added one litre on each of three days
InitTotals ==
    /\ users = [u \in UserIds |-> NewUser]
    /\ milk = [i \in 1..3 |->
                 MilkRow(FmtDate(Now(i)), FmtMonthYear(Now(i)), F(1),
                         FMul(F(1), F(DefaultPrice)), 1)]
    /\ nextId = 4
    /\ day = 3
    /\ last = Resp("none", 0, 0, "none", NoDate, {})
    /\ lw = [i \in 1..3 |-> F(DefaultPrice)]
    /\ lcw = [i \in 1..3 |-> F(DefaultPrice)]
    /\ pend = [w \in Workers |-> Idle]
    /\ accounts = [u \in UserIds |-> OAuthAccount("google", EmailOf(u))]
    /\ session = 0
    /\ issued = {}
    /\ clock = 0
    /\ tz = 0
    /\ ScriptsIdle
    /\ latest = <<>>
    /\ mail = {}
    /\ how = [u \in UserIds |-> How("google")]

NextTotals ==
    \/ \E u \in UserIds, i \in 1..3, q \in {NumStr(1), NumStr(BigQty)} :
           edit(u, i, q, NoDate)
    \/ \E u \in UserIds, i \in 1..3 : delete_data(u, i)
    \/ \E u \in UserIds : home(u)
    \/ \E u \in UserIds : api_get_milk_records(u)

SpecTotals == InitTotals /\ [][NextTotals]_vars

\* ------------------------------------------------------------------ claims

\* C1: in every state reachable by record operations executed one at a time
\* there is at most one Milk row per (user_id, date) pair, edits and API
\* updates that change a record's date included.
C1_UniquePerUserDate ==
    \A i, j \in DOMAIN milk :
        (milk[i].user_id = milk[j].user_id /\ milk[i].date = milk[j].date)
            => i = j

\* C2: a record operation of caller A leaves every row of every other user
\* as it was, returns and creates only rows of A, and fails ("404" on the
\* API, "notfound" on pages) with the whole table unchanged when the record
\* id is not a row of A.
C2_OwnerIsolation ==
    [][last'.op \in RecordOps =>
        LET a == last'.caller IN
        /\ \A i \in DOMAIN milk :
              milk[i].user_id # a => (i \in DOMAIN milk' /\ milk'[i] = milk[i])
        /\ \A i \in DOMAIN milk' \ DOMAIN milk : milk'[i].user_id = a
        /\ \A i \in last'.rows : i \in DOMAIN milk' /\ milk'[i].user_id = a
        /\ (last'.op \in IdOps /\ ~(last'.id \in DOMAIN milk
                                     /\ milk[last'.id].user_id = a))
              => /\ last'.status = (IF last'.op \in {"api_update", "api_delete"}
                                    THEN "404" ELSE "notfound")
                 /\ milk' = milk
                 /\ last'.rows = {}]_vars

\* C2 witness: a request for a record of another user has been refused
C2_Witness ==
    /\ last.op \in IdOps
    /\ last.status \in {"404", "notfound"}
    /\ last.id \in DOMAIN milk
    /\ milk[last.id].user_id # last.caller

\* C5: every Milk row's month_year is the MM-YYYY part of its date, the
\* value get_month_year(date) returns.
C5_MonthYearMatchesDate ==
    \A i \in DOMAIN milk : milk[i].month_year = get_month_year(milk[i].date)

\* C5 witness: an edit or API update has moved a row to a date in a month
\* other than the current one
C5_Witness ==
    /\ last.op \in {"edit", "api_update"}
    /\ last.status \in {"ok", "200"}
    /\ last.id \in DOMAIN milk
    /\ milk[last.id].date = last.date
    /\ milk[last.id].month_year # FmtMonthYear(Now(day))

\* C9: an add request of a user directly after a successful add request of
\* the same user with the same resulting date is rejected as a conflict
\* ("conflict" on the page route, "409" on the API) and changes no row.
C9_SecondAddRejected ==
    [][(/\ last.op \in AddOps /\ last.status \in {"ok", "201"}
        /\ last'.op \in AddOps /\ last'.caller = last.caller
        /\ last'.date # NoDate /\ last'.date = last.date)
       => /\ last'.status = (IF last'.op = "add" THEN "conflict" ELSE "409")
          /\ milk' = milk]_vars

\* C9 witness: an add request whose date defaulted to the current day has
\* been rejected as a conflict
C9_Witness ==
    /\ last.op \in AddOps
    /\ last.status \in {"conflict", "409"}
    /\ last.dflt
    /\ Cardinality(Existing(last.caller, last.date)) = 1

\* the row's cost is its quantity times the price p
CostIs(row, p) == row.cost = FMul(row.milk_qty, p)

\* C3: for every Milk row, cost equals milk_qty times the owner's price in
\* effect when the row was last written, a write being an add, a page edit,
\* an API PUT (one that supplies only a date included) or a recalculation.
C3_CostAtLastWrite == \A i \in DOMAIN milk : CostIs(milk[i], lw[i])

\* C3 amended: for every Milk row, cost equals milk_qty times the owner's
\* price in effect when the row's cost was last written: by an add, a page
\* edit, an API PUT that supplies milk_qty, or a recalculation.
C3_CostAtLastCostWrite == \A i \in DOMAIN milk : CostIs(milk[i], lcw[i])

\* C3 witness: an API PUT without milk_qty has moved a row whose owner's
\* price has changed since the row's cost was written
C3_Witness ==
    /\ last.op = "api_update"
    /\ last.status = "200"
    /\ last.id \in DOMAIN milk
    /\ milk[last.id].date = FmtDate(Now(MaxDay))
    /\ lw[last.id] # lcw[last.id]

\* C4: in every reachable state each Milk row's cost equals its milk_qty
\* times its owner's currently stored milk_price_per_litre.
C4_CostAtCurrentPrice ==
    \A i \in DOMAIN milk : CostIs(milk[i], users[milk[i].user_id].price)

\* C4 amended: every step that creates a row or changes a row's milk_qty or
\* cost leaves the row with cost = milk_qty x the owner's stored price, and
\* a row whose cost equals milk_qty x the owner's price keeps that equality
\* in every step that does not change the owner's price.
C4_CostDriftsOnlyOnPriceChange ==
    [][\A i \in DOMAIN milk' :
        LET new == milk'[i]
            price == users'[new.user_id].price
        IN /\ (i \notin DOMAIN milk \/ milk[i].cost # new.cost
                                     \/ milk[i].milk_qty # new.milk_qty)
                 => CostIs(new, price)
           /\ (/\ i \in DOMAIN milk
               /\ users[milk[i].user_id].price = price
               /\ CostIs(milk[i], users[milk[i].user_id].price))
                 => CostIs(new, price)]_vars

\* C4 witness: a settings update has changed a user's price and left a row
\* of that user with its old cost
C4_Witness ==
    /\ last.op \in {"settings", "api_settings"}
    /\ last.status \in {"ok", "200"}
    /\ \E i \in OwnedBy(last.caller) :
          ~CostIs(milk[i], users[last.caller].price)

\* C6: a page settings POST with recalculation requested and a new price
\* that differs from the old one sets cost = milk_qty x new price on every
\* row of the caller and leaves the rows of other users unchanged; without
\* the request, with an unchanged price or when the POST is rejected no
\* row changes.
C6_RecalculateOwnRowsOnly ==
    [][\A u \in UserIds, p \in SettingsPrices, r \in BOOLEAN :
        settings(u, p, "", "", r) =>
          IF r /\ last'.status \in {"ok", "recalculated"}
               /\ FNe(users[u].price, users'[u].price)
          THEN /\ DOMAIN milk' = DOMAIN milk
               /\ \A i \in DOMAIN milk :
                     milk'[i] = IF milk[i].user_id = u
                                THEN [milk[i] EXCEPT !.cost =
                                        FMul(milk[i].milk_qty, users'[u].price)]
                                ELSE milk[i]
          ELSE milk' = milk]_vars

\* C6 witness: a recalculation has run for a user who has a row while
\* another user has a row whose cost is not its quantity times the
\* recalculating user's new price
C6_Witness ==
    /\ last.op = "settings"
    /\ last.status = "recalculated"
    /\ OwnedBy(last.caller) # {}
    /\ \E i \in DOMAIN milk :
          /\ milk[i].user_id # last.caller
          /\ ~CostIs(milk[i], users[last.caller].price)

\* C7: every user's milk_price_per_litre is strictly positive in every state
\* reachable through page settings POST and API settings PUT, and a rejected
\* request leaves price, currency and symbol unchanged.
C7_PricePositive ==
    [][/\ \A u \in DOMAIN users' : FPositive(users'[u].price)
       /\ (last'.op \in {"settings", "api_settings"}
           /\ last'.status \in {"invalid", "rejected", "400"})
             => users' = users]_vars

\* C8: API PUT /api/settings changes no Milk row, whatever the body.
C8_ApiSettingsKeepsRows ==
    [][last'.op = "api_settings" => milk' = milk]_vars

\* C8 witness: an API settings PUT has changed the caller's price and a row
\* of the caller still has the cost computed from the old price
C8_Witness ==
    /\ last.op = "api_settings"
    /\ last.status = "200"
    /\ \E i \in OwnedBy(last.caller) :
          /\ ~CostIs(milk[i], users[last.caller].price)
          /\ CostIs(milk[i], F(DefaultPrice))

\* C10: the insert of an add request that has passed its existence check
\* always adds the request's row, whatever has been committed since the
\* check: no storage-level constraint refuses a second row for the same
\* (user_id, date).
C10_InsertAfterCheckUnguarded ==
    [][\A w \in Workers :
        (pend[w] # Idle /\ pend'[w] = Idle)
            => /\ nextId \notin DOMAIN milk
               /\ DOMAIN milk' = DOMAIN milk \cup {nextId}
               /\ milk'[nextId] = pend[w].row]_vars

\* C10 witness: two add requests for the same user and date have both
\* passed the check and both inserted
C10_Witness ==
    /\ last.op \in AddOps
    /\ last.status \in {"ok", "201"}
    /\ \E i, j \in DOMAIN milk :
          /\ i # j
          /\ milk[i].user_id = milk[j].user_id
          /\ milk[i].date = milk[j].date

\* C11: a refresh request that presents a refresh token the server issued
\* succeeds (200) when the token is the one returned by the latest register
\* or login call for its user, and is answered 401 when the token was issued
\* to that user earlier.
C11_OnlyLatestRefreshHonored ==
    [][(/\ last'.op = "api_refresh"
        /\ last'.token \in issued
        /\ last'.token.type = "refresh")
       => LET t == last'.token IN
          IF t.user_id \in DOMAIN latest /\ t = latest[t.user_id] /\ Decodes(t)
          THEN last'.status = "200"
          ELSE last'.status = "401"]_vars

C13_TokenTypesNotInterchangeable ==
    [][\A t \in Presentable :
        /\ (t.type = "refresh" /\ (api_logout(t) \/ api_get_current_user(t)))
              => /\ last'.status = "401"
                 /\ UNCHANGED <<users, accounts, milk, issued, latest, mail, how>>
        /\ (t.type = "access" /\ api_refresh_token(t))
              => /\ last'.status = "401"
                 /\ last'.access_token = NoToken
                 /\ UNCHANGED <<users, accounts, milk, issued, latest, mail, how>>]_vars

\* C13 witness: a guarded route has refused an unexpired refresh token that
\* the server issued to an existing user
C13_Witness ==
    /\ last.op \in {"api_logout", "api_me"}
    /\ last.status = "401"
    /\ last.token \in issued
    /\ last.token.type = "refresh"
    /\ Decodes(last.token)
    /\ last.token.user_id \in DOMAIN accounts

\* C14: password login never succeeds for an account whose email_verified
\* is false: a page POST /login for its address establishes no session
\* whatever the password, POST /api/auth/login for its address issues no
\* token and answers 403 when the password is the account's; and an account
\* created by the page registration logs in by password (page or API) only
\* after /verify-email has confirmed it.
C14_NoPasswordLoginUnverified ==
    [][/\ \A e \in Emails, p \in Passwords \cup {Missing} :
            (\E u \in ByEmail(e) : ~accounts[u].email_verified) =>
              /\ login(e, p) => (session' = session /\ last'.status # "ok")
              /\ api_login(e, p) =>
                   /\ last'.status \in {"400", "401", "403"}
                   /\ issued' = issued
                   /\ (\E u \in ByEmail(e) :
                          check_password_hash(accounts[u].password_hash, p))
                        => last'.status = "403"
       /\ (/\ \/ (last'.op = "login" /\ last'.status = "ok")
              \/ (last'.op = "api_login" /\ last'.status = "200")
           /\ how[last'.caller].origin = "page")
            => how[last'.caller].linked]_vars

\* C14 witness: a page login with the right password has been refused for
\* an unverified account that was registered an hour or more ago
C14_Witness ==
    /\ last.op = "login"
    /\ last.status = "unverified"
    /\ session = 0
    /\ ~accounts[last.caller].email_verified
    /\ how[last.caller].origin = "page"
    /\ clock > 0

\* C15: GET /verify-email/<token> with a token that was delivered, is
\* unaltered and is at most 3600 seconds (expiration) old sets email_verified
\* on the account with the token's address and changes no other account;
\* with an expired or altered token it changes no account, and both failures
\* get the same answer.
C15_VerifyExactlyTokenAccount ==
    [][last'.op = "verify_email" =>
        LET t == last'.token IN
        IF t \in mail /\ clock - t.ts <= expiration /\ ByEmail(t.email) # {}
        THEN /\ DOMAIN accounts' = DOMAIN accounts
             /\ \A u \in DOMAIN accounts :
                   accounts'[u] = IF accounts[u].email = t.email
                                  THEN [accounts[u] EXCEPT !.email_verified = TRUE]
                                  ELSE accounts[u]
             /\ last'.status = "ok"
        ELSE /\ accounts' = accounts
             /\ last'.status = "invalid"]_vars

\* C15 witness: a token exactly 3600 seconds old has verified its account
\* while another account stays unverified
C15_Witness ==
    /\ last.op = "verify_email"
    /\ last.status = "ok"
    /\ clock - last.token.ts = expiration
    /\ accounts[last.caller].email_verified
    /\ \E u \in DOMAIN accounts : ~accounts[u].email_verified

MonthlyTotals(r) ==
    [k \in 1..Len(r.sorted_months) |-> r.monthly_totals[r.sorted_months[k]]]

\* the exact per-month sums of a listing response, in the order of its months
MonthlyExact(r) ==
    [k \in 1..Len(r.sorted_months) |->
        ExactSum(CostsOf(r.monthly_data[r.sorted_months[k]]))]

AddEffectIs(o) ==
    IF o.rejected THEN milk' = milk
    ELSE /\ DOMAIN milk' = DOMAIN milk \cup {nextId}
         /\ \A i \in DOMAIN milk : milk'[i] = milk[i]
         /\ milk'[nextId] = o.row

\* C18: for every input and every prior state, page POST /add and API POST
\* /api/milk/records both reject the request or both insert a row with the
\* same date, month_year, milk_qty and cost: every page add does to the table
\* what the API's rules say for its input, and every API add what the page's
\* rules say.
C18_SameAddRules ==
    [][\A u \in UserIds, q \in FormNumbers \cup JsonNumbers, d \in Dates :
        /\ add(u, q, d) => AddEffectIs(AddOutcome("api_add", u, q, d))
        /\ api_add_milk_record(u, q, d)
              => AddEffectIs(AddOutcome("add", u, q, d))]_vars

\* the account tables a and b hold the same rows apart from email_verified
SameButVerified(a, b) ==
    /\ DOMAIN a = DOMAIN b
    /\ \A u \in DOMAIN a : [a[u] EXCEPT !.email_verified = TRUE]
                            = [b[u] EXCEPT !.email_verified = TRUE]

\* C19: for every request to a shared page route, from the same state, the
\* refactored application produces the same User state and the same session
\* state as app.py, except that its /register writes email_verified true
\* where app.py writes false: every OAuth callback of app.py leaves the
\* tables and the session the refactored callback leaves, and every
\* registration of app.py leaves the refactored registration's users and
\* session and, apart from email_verified, its accounts.
C19_RefactoredSameState ==
    [][/\ \A p \in {"google", "github"}, e \in Emails :
             oauth_callback(p, e)
                 => LET r == refactored_oauth_callback(p, e) IN
                    /\ users' = r.users
                    /\ accounts' = r.accounts
                    /\ session' = r.session
       /\ \A e \in Emails, p \in Passwords, c \in Passwords, sent \in BOOLEAN :
             register(e, p, c, sent)
                 => LET r == refactored_register(e, p, c) IN
                    /\ users' = r.users
                    /\ SameButVerified(accounts', r.accounts)
                    /\ session' = r.session]_vars

\* the account with address email has a password hash and password is its
\* password
CorrectPassword(email, password) ==
    \E u \in ByEmail(email) : accounts[u].password_hash = Hash(password)

\* the step ends a request without a login: the response carries no token,
\* no token is issued and no account row changes
NothingIssued ==
    /\ last'.access_token = NoToken
    /\ last'.refresh_token = NoToken
    /\ issued' = issued
    /\ accounts' = accounts

\* C20 as stated: POST /api/auth/login returns 401 when the password is
\* missing or incorrect (an account without a password hash included) and 403
\* when the password is correct and the account unverified; 403 is returned
\* only for a correct password, and a failure issues no token and leaves the
\* stored refresh token unchanged.
C20_LoginFailuresAs401 ==
    [][\A e \in Emails, p \in Passwords \cup {Missing} :
        api_login(e, p)
            => /\ (p = Missing \/ (ByEmail(e) # {} /\ ~CorrectPassword(e, p)))
                    => last'.status = "401"
               /\ (CorrectPassword(e, p) /\ \E u \in ByEmail(e) : ~Verified(u))
                    => last'.status = "403"
               /\ last'.status = "403" => CorrectPassword(e, p)
               /\ last'.status # "200" => NothingIssued]_vars

\* C20, amended: POST /api/auth/login returns 400 when the email or the
\* password is missing, 401 when both are present and no account has the
\* email, the account has no password hash or the password is incorrect, and
\* 403 when the password is correct and the account unverified; 403 is
\* returned only for a correct password, and every one of these failures
\* issues no token and leaves the account rows, the stored refresh token
\* included, unchanged.
C20_LoginFailureStatuses ==
    [][\A e \in Emails \cup {Missing}, p \in Passwords \cup {Missing} :
        api_login(e, p)
            => /\ (e = Missing \/ p = Missing) => last'.status = "400"
               /\ (e # Missing /\ p # Missing /\ ~CorrectPassword(e, p))
                    => last'.status = "401"
               /\ (p # Missing /\ CorrectPassword(e, p)
                     /\ \E u \in ByEmail(e) : ~Verified(u))
                    => last'.status = "403"
               /\ last'.status = "403" => CorrectPassword(e, p)
               /\ last'.status # "200" => NothingIssued]_vars

\* C20 witness: a login with the correct password of an unverified account
\* was refused with 403, after some token had been issued to another login
C20_Witness ==
    /\ last.op = "api_login"
    /\ last.status = "403"
    /\ last.caller \in DOMAIN accounts
    /\ accounts[last.caller].password_hash # None
    /\ ~accounts[last.caller].email_verified
    /\ issued # {}

\* C21: a refresh request that presents the unexpired refresh token of the
\* latest login or registration of a user who has not logged out since is
\* answered 200 with a new access token and no refresh token, and it leaves
\* the account rows and the stored refresh token unchanged, so that the same
\* token is accepted by the next refresh request as well.
C21_RefreshIssuesAccessOnly ==
    [][\A t \in issued :
        (/\ t.type = "refresh"
         /\ t.user_id \in DOMAIN latest
         /\ latest[t.user_id] = t
         /\ Decodes(t)
         /\ api_refresh_token(t))
            => /\ last'.status = "200"
               /\ last'.access_token.type = "access"
               /\ last'.access_token.user_id = t.user_id
               /\ last'.refresh_token = NoToken
               /\ accounts' = accounts
               /\ latest' = latest]_vars

\* ------------------------------ specification: tokens and the server's clock
\* the offsets, in hours, of the server's local time from UTC
Offsets == {-1, 0, 1}

\* the instants the clock reaches: around the end of an access token's and of
\* a refresh token's lifetime
Instants ==
    {1, AccessLife - 1, AccessLife, AccessLife + 1, AccessLife + 2,
     RefreshLife, RefreshLife + 1}

\* empty tables on a server in any of the time zones
InitClock ==
    /\ users = <<>>
    /\ accounts = <<>>
    /\ milk = <<>>
    /\ nextId = 1
    /\ day = 1
    /\ last = Resp("none", 0, 0, "none", NoDate, {})
    /\ lw = <<>>
    /\ lcw = <<>>
    /\ pend = [w \in Workers |-> Idle]
    /\ session = 0
    /\ issued = {}
    /\ clock = 0
    /\ tz \in Offsets
    /\ ScriptsIdle
    /\ latest = <<>>
    /\ mail = {}
    /\ how = <<>>

NextClock ==
    \/ \E e \in Emails : api_register(e, "pw1")
    \/ \E t \in issued : api_get_current_user(t)
    \/ \E t \in issued : api_refresh_token(t)
    \/ \E t \in Instants : Pass(t)

SpecClock == InitClock /\ [][NextClock]_vars

\* the instant the server issued token: its issued-at claim, which an access
\* token carries in local time
IssuedAt(token) == IF token.type = "access" THEN token.iat - tz ELSE token.iat

\* the lifetime the token's type has
LifeOf(token) == IF token.type = "access" THEN AccessLife ELSE RefreshLife

\* C22: whatever the offset of the server's local time from UTC,
\* decode_token returns the payload of every token the server issued at
\* every instant from its issuance to the end of its lifetime (24 hours for
\* an access token, 30 days for a refresh token) and returns absent at every
\* later instant.
C22_TokensLiveTheirLifetime ==
    \A t \in issued :
        /\ clock < IssuedAt(t) + LifeOf(t) => Decodes(t)
        /\ clock > IssuedAt(t) + LifeOf(t) => ~Decodes(t)

\* C23: a page POST /register of a visitor who is not logged in, with
\* matching passwords and an address no account has, creates the account
\* row (password hash set, not verified) and answers with the redirect to
\* login whether send_verification_email returned true or false; the outcome
\* of the send changes only the message and whether a link was mailed.
C23_RegistrationSurvivesMailFailure ==
    [][\A e \in Emails, p \in Passwords, sent \in BOOLEAN :
        (session = 0 /\ ByEmail(e) = {} /\ register(e, p, p, sent))
            => /\ DOMAIN accounts' = DOMAIN accounts \cup {NextUserId}
               /\ accounts'[NextUserId] = Account(e, Hash(p), FALSE, "")
               /\ \A u \in DOMAIN accounts : accounts'[u] = accounts[u]
               /\ last'.status = (IF sent THEN "ok" ELSE "warning")
               /\ (~sent => mail' = mail)]_vars

\* C23 witness: a registration whose verification email could not be sent
\* has created its account
C23_Witness ==
    /\ last.op = "register"
    /\ last.status = "warning"
    /\ last.caller \in DOMAIN accounts
    /\ accounts[last.caller].password_hash # None
    /\ ~accounts[last.caller].email_verified
    /\ \A t \in mail : t.email # accounts[last.caller].email

\* ------------------------------------ specification: pages behind the login
NextSession ==
    \/ \E e \in Emails : oauth_callback("google", e)
    \/ \E e \in Emails : login(e, "pw1")
    \/ logout
    \/ home_request
    \/ \E d \in {NoDate, Iso(Now(MaxDay))} : add_request(NumStr(2), d)
    \/ \E i \in RecordIds : edit_request(i, NumStr(3), NoDate)
    \/ \E i \in RecordIds : delete_request(i)
    \/ \E r \in BOOLEAN : settings_request(NumStr(OtherPrice), "", "", r)

SpecSession == Init /\ [][NextSession]_vars

\* C24: a request to /, /add, /edit, /delete or /settings made without
\* user_id in the session is redirected to login and changes no User or Milk
\* row and not the session; /logout leaves the session empty; and an empty
\* session stays empty until a successful login or OAuth callback.
C24_NoSessionNoHandler ==
    [][/\ (session = 0
           /\ last'.op \in {"home", "add", "edit", "delete",
                             "settings"})
            => /\ last'.status = "login"
               /\ UNCHANGED <<users, accounts, milk, nextId, session>>
       /\ last'.op = "logout" => session' = 0
       /\ (session = 0 /\ session' # 0)
            => /\ last'.op \in {"login", "google", "github"}
               /\ last'.status = "ok"]_vars

\* C24 witness: after rows were stored and the user logged out, a request to
\* a protected page was redirected to login
C24_Witness ==
    /\ last.status = "login"
    /\ last.op = "delete"
    /\ session = 0
    /\ DOMAIN milk # {}

\* ------------------------------ maintenance scripts: ownership of milk rows
\* migrate_add_user_id.py, __main__: the script runs after an explicit y
migrate_main(response) ==
    /\ run.pc = "done"
    /\ run' = IF response = "y"
              THEN Run("migrate_add_user_id", "step1", TRUE, local)
              ELSE [Run("migrate_add_user_id", "done", FALSE, local)
                        EXCEPT !.result = "cancelled"]
    /\ UNCHANGED <<local, remote>>
    /\ NoAppChange

\* AbortsWithoutUsers for no counts
AbortsNever(milk_count, user_count) == FALSE

\* the abort when milk rows exist and no user does
AbortsWithoutUsers(milk_count, user_count) == milk_count > 0 /\ user_count = 0

\* migrate, steps 1 and 2: the columns and the counts are read; the run ends
\* when the column exists and the operator does not continue, and when milk
\* rows exist but no user does
migrate_check(response) ==
    /\ run.script = "migrate_add_user_id"
    /\ run.pc = "step1"
    /\ LET milk_columns == local.user_id_col
           milk_count == Cardinality(DOMAIN local.milk)
           user_count == Cardinality(DOMAIN local.user)
           read == [milk_columns |-> milk_columns, milk_count |-> milk_count,
                    user_count |-> user_count]
       IN run' = IF milk_columns /\ response # "y"
                 THEN [Ended("cancelled") EXCEPT !.locals = read]
                 ELSE IF AbortsWithoutUsers(milk_count, user_count)
                 THEN [Ended("failed") EXCEPT !.locals = read]
                 ELSE [run EXCEPT !.pc = "step3", !.locals = read]
    /\ UNCHANGED <<local, remote>>
    /\ NoAppChange

\* migrate, step 3: ALTER TABLE milk ADD COLUMN user_id; commit
migrate_add_column ==
    /\ run.script = "migrate_add_user_id"
    /\ run.pc = "step3"
    /\ local' = IF run.locals.milk_columns THEN local
                ELSE [local EXCEPT !.user_id_col = TRUE]
    /\ run' = [run EXCEPT !.pc = "step4"]
    /\ UNCHANGED remote
    /\ NoAppChange

\* the ids an operator types at the prompt for the owner, as text
TypedIds == {ToString(n) : n \in 1..(NumUsers + 1)}

\* int(default_user_id) of a typed id
IntOf(typed) == CHOOSE n \in 1..(NumUsers + 1) : ToString(n) = typed

\* the address of the account the migration creates when it finds no user
admin_email == "admin@milkcalculator.com"

\* UPDATE milk SET user_id = :user_id WHERE user_id IS NULL
AssignOwner(rows, user_id) ==
    [i \in DOMAIN rows |->
        IF rows[i].user_id = NullId THEN [rows[i] EXCEPT !.user_id = user_id]
        ELSE rows[i]]

\* migrate, step 4: when milk rows were counted, the owner is the account
\* created for the purpose if the user table is empty, else the first user
\* or the id the operator typed; the rows without owner are assigned to it
migrate_assign(typed) ==
    /\ run.script = "migrate_add_user_id"
    /\ run.pc = "step4"
    /\ IF run.locals.milk_count = 0 THEN
           /\ run' = [run EXCEPT !.pc = "step5"]
           /\ UNCHANGED local
       ELSE IF DOMAIN local.user = {} THEN
           /\ local' = [local EXCEPT
                           !.user = Put(@, 1, UserRow(admin_email, TRUE)),
                           !.milk = AssignOwner(@, 1)]
           /\ run' = [run EXCEPT !.pc = "step5"]
       ELSE IF typed = "" THEN
           LET first == CHOOSE u \in DOMAIN local.user :
                            \A v \in DOMAIN local.user : u <= v
           IN /\ local' = [local EXCEPT !.milk = AssignOwner(@, first)]
              /\ run' = [run EXCEPT !.pc = "step5"]
       ELSE IF typed \in TypedIds THEN
           /\ local' = [local EXCEPT !.milk = AssignOwner(@, IntOf(typed))]
           /\ run' = [run EXCEPT !.pc = "step5"]
       ELSE
           \* int() raises ValueError: rollback, return False
           /\ run' = Ended("failed")
           /\ UNCHANGED local
    /\ UNCHANGED remote
    /\ NoAppChange

\* migrate, step 5: milk is rebuilt with user_id NOT NULL and its rows are
\* copied; a row without owner makes the copy fail
migrate_rebuild ==
    /\ run.script = "migrate_add_user_id"
    /\ run.pc = "step5"
    /\ IF \E i \in DOMAIN local.milk : local.milk[i].user_id = NullId THEN
           /\ run' = Ended("failed")
           /\ UNCHANGED local
       ELSE
           /\ local' = [local EXCEPT !.not_null = TRUE]
           /\ run' = Ended("ok")
    /\ UNCHANGED remote
    /\ NoAppChange

\* --------------------------- specification: the migration to owned milk rows
\* the application's own state while a script runs: nothing is stored in it
AppStopped ==
    /\ users = <<>>
    /\ accounts = <<>>
    /\ milk = <<>>
    /\ nextId = 1
    /\ day = 1
    /\ last = Resp("none", 0, 0, "none", NoDate, {})
    /\ lw = <<>>
    /\ lcw = <<>>
    /\ pend = [w \in Workers |-> Idle]
    /\ session = 0
    /\ issued = {}
    /\ clock = 0
    /\ tz = 0
    /\ latest = <<>>
    /\ mail = {}
    /\ how = <<>>

\* the content (date, milk_qty, cost, month_year) of the milk row with key i
DataOf(i) == "row" \o ToString(i)

\* the databases the migration can find: any users, and milk rows without
\* the column user_id or with it, each row then owned by a user or by none
LegacyDbs ==
    {Database([u \in U |-> UserRow(EmailOf(u), TRUE)],
              [i \in DOMAIN owner |-> OwnedRow(DataOf(i), owner[i])],
              \E i \in DOMAIN owner : owner[i] # NullId) :
        U \in SUBSET UserIds,
        owner \in UNION {[I -> {NullId} \cup UserIds] : I \in SUBSET RecordIds}}
    \cup
    {Database([u \in U |-> UserRow(EmailOf(u), TRUE)],
              [i \in I |-> OwnedRow(DataOf(i), NullId)], TRUE) :
        U \in SUBSET UserIds, I \in SUBSET RecordIds}

InitOwnership ==
    /\ AppStopped
    /\ local \in {d \in LegacyDbs :
                     \A i \in DOMAIN d.milk :
                         d.milk[i].user_id \in {NullId} \cup DOMAIN d.user}
    /\ remote = EmptyDb
    /\ run = NoRun

NextOwnership ==
    \/ \E response \in Answers : migrate_main(response)
    \/ \E response \in Answers : migrate_check(response)
    \/ migrate_add_column
    \/ \E typed \in {"", "x"} \cup TypedIds : migrate_assign(typed)
    \/ migrate_rebuild

SpecOwnership == InitOwnership /\ [][NextOwnership]_vars

\* the migration has run to an end, successful or not, on a database in which
\* it counted no user
EndedWithoutUsers ==
    /\ run.script = "migrate_add_user_id"
    /\ run.result \in {"ok", "failed"}
    /\ "user_count" \in DOMAIN run.locals
    /\ run.locals.user_count = 0

\* C26: when the migration has run on a database that contained no users,
\* the default administrator account (admin@milkcalculator.com, verified)
\* exists and owns every milk row.
C26_AdminCreatedWithoutUsers ==
    EndedWithoutUsers
        => \E u \in DOMAIN local.user :
               /\ local.user[u] = UserRow(admin_email, TRUE)
               /\ \A i \in DOMAIN local.milk : local.milk[i].user_id = u

\* C27: when the migration finds at least one milk row and no user, its
\* check ends the run with a failure (or, where the column exists already,
\* with the operator's refusal to continue), and the database is what it was
\* when the run started: no column, row or user has changed.
C27_AbortBeforeMutation ==
    [][(/\ run.script = "migrate_add_user_id"
        /\ run.pc = "step1"
        /\ run'.pc # "step1"
        /\ DOMAIN local.milk # {}
        /\ DOMAIN local.user = {})
            => /\ run'.pc = "done"
               /\ run'.result \in {"failed", "cancelled"}
               /\ local' = local
               /\ local = run.before]_vars

\* C27 witness: the migration has failed on a database with milk rows and
\* without users, and the milk table still lacks the column
C27_Witness ==
    /\ run.script = "migrate_add_user_id"
    /\ run.result = "failed"
    /\ run.locals.milk_count > 0
    /\ run.locals.user_count = 0
    /\ local = run.before
    /\ ~local.user_id_col

\* C28: after the migration reports success, every milk row has a user_id
\* that is the id of an existing user, the milk table holds the rows with the
\* content it held before the run, and a row that had an owner keeps it.
C28_EveryRowOwnedByAUser ==
    (run.script = "migrate_add_user_id" /\ run.result = "ok")
        => /\ DOMAIN local.milk = DOMAIN run.before.milk
           /\ \A i \in DOMAIN local.milk :
                 /\ local.milk[i].user_id \in DOMAIN local.user
                 /\ local.milk[i].data = run.before.milk[i].data
                 /\ run.before.milk[i].user_id # NullId
                       => local.milk[i].user_id = run.before.milk[i].user_id

\* ----------------------------- maintenance scripts: transfer to PostgreSQL
\* migrate_sqlite_to_postgres.py, __main__: the transfer runs after an
\* explicit y; retry records that the run before this one was a transfer
\* that an error outside the database interrupted, and origin the target as
\* it was before the first of these runs
transfer_main(response) ==
    /\ run.pc = "done"
    /\ LET retry == /\ run.script = "migrate_sqlite_to_postgres"
                    /\ run.result = "interrupted"
           read == [retry |-> retry, truncated |-> FALSE,
                    response |-> response,
                    origin |-> IF retry THEN run.locals.origin ELSE remote]
       IN run' = IF response = "y"
                 THEN [Run("migrate_sqlite_to_postgres", "users", TRUE, remote)
                           EXCEPT !.locals = read]
                 ELSE [Run("migrate_sqlite_to_postgres", "done", FALSE, remote)
                           EXCEPT !.result = "cancelled", !.locals = read]
    /\ UNCHANGED <<local, remote>>
    /\ NoAppChange

\* TRUNCATE TABLE milk, "user" RESTART IDENTITY CASCADE
Truncated(d) ==
    [d EXCEPT !.user = <<>>, !.milk = <<>>, !.seq = [user |-> 0, milk |-> 0]]

\* transfer, step 3, first half: when the source has users the operator is
\* asked whether to clear the target, and y truncates it; commit
transfer_truncate(response) ==
    /\ run.script = "migrate_sqlite_to_postgres"
    /\ run.pc = "users"
    /\ IF DOMAIN local.user = {} THEN
           /\ run' = [run EXCEPT !.pc = "milk"]
           /\ UNCHANGED remote
       ELSE IF response = "y" THEN
           /\ remote' = Truncated(remote)
           /\ run' = [run EXCEPT !.pc = "insert_users",
                                 !.locals.truncated = TRUE,
                                 !.locals.response = response]
       ELSE
           /\ run' = [run EXCEPT !.pc = "insert_users",
                                 !.locals.response = response]
           /\ UNCHANGED remote
    /\ UNCHANGED local
    /\ NoAppChange

\* the addresses of the user rows
EmailsIn(rows) == {rows[u].email : u \in DOMAIN rows}

\* NewUsers with every source user
NewUsersAll(source, target) == DOMAIN source

\* ON CONFLICT (email) DO NOTHING: the source users whose address no user of
\* the target has
NewUsers(source, target) ==
    {u \in DOMAIN source : source[u].email \notin EmailsIn(target)}

\* transfer, step 3, second half: the source users are inserted with their
\* ids, except those whose address exists on the target; a new user whose
\* id exists on the target violates the primary key; commit
transfer_users ==
    /\ run.script = "migrate_sqlite_to_postgres"
    /\ run.pc = "insert_users"
    /\ LET new == NewUsers(local.user, remote.user) IN
       IF \E u \in new : u \in DOMAIN remote.user
                          /\ remote.user[u].email # local.user[u].email
       THEN /\ run' = Ended("failed")
            /\ UNCHANGED remote
       ELSE /\ remote' = [remote EXCEPT !.user =
                             [u \in DOMAIN @ \cup new |->
                                 IF u \in new THEN local.user[u] ELSE @[u]]]
            /\ run' = [run EXCEPT !.pc = "milk"]
    /\ UNCHANGED local
    /\ NoAppChange

\* transfer, step 4: every source milk row is inserted with its id; a row
\* whose id exists on the target violates the primary key and a row whose
\* owner the target does not hold violates the foreign key; commit
transfer_milk ==
    /\ run.script = "migrate_sqlite_to_postgres"
    /\ run.pc = "milk"
    /\ IF \E i \in DOMAIN local.milk :
              \/ i \in DOMAIN remote.milk
              \/ local.milk[i].user_id \notin DOMAIN remote.user
       THEN /\ run' = Ended("failed")
            /\ UNCHANGED remote
       ELSE /\ remote' = [remote EXCEPT !.milk =
                             [i \in DOMAIN @ \cup DOMAIN local.milk |->
                                 IF i \in DOMAIN local.milk THEN local.milk[i]
                                 ELSE @[i]]]
            /\ run' = [run EXCEPT !.pc = "verify"]
    /\ UNCHANGED local
    /\ NoAppChange

\* transfer, step 5: the counts of the target are read and the run reports
\* success
transfer_verify ==
    /\ run.script = "migrate_sqlite_to_postgres"
    /\ run.pc = "verify"
    /\ run' = Ended("ok")
    /\ UNCHANGED <<local, remote>>
    /\ NoAppChange

\* except Exception: a statement of the running script raises for a cause
\* outside the database (the connection is lost); what is committed stays
script_interrupted ==
    /\ run.pc # "done"
    /\ run' = Ended("interrupted")
    /\ UNCHANGED <<local, remote>>
    /\ NoAppChange

\* ------------------------------ specification: the transfer to PostgreSQL
\* the local databases the application leaves: every milk row has an owner
\* in the user table
Sources ==
    {[Database([u \in U |-> UserRow(EmailOf(u), TRUE)],
               [i \in DOMAIN owner |-> OwnedRow(DataOf(i), owner[i])], TRUE)
          EXCEPT !.not_null = TRUE] :
        U \in SUBSET UserIds,
        owner \in UNION {[I -> UserIds] : I \in SUBSET RecordIds}}

\* the targets the transfer can find: empty tables, a user with the address
\* of source user 1 under the same id or under another id, and that user
\* with a milk row
Targets ==
    {EmptyDb,
     Database([u \in {1} |-> UserRow(EmailOf(1), FALSE)], <<>>, TRUE),
     Database([u \in {NumUsers} |-> UserRow(EmailOf(1), FALSE)], <<>>, TRUE),
     Database([u \in {1} |-> UserRow(EmailOf(1), FALSE)],
              [i \in {MaxRecords} |-> OwnedRow("target", 1)], TRUE)}

InitTransfer ==
    /\ AppStopped
    /\ local \in {d \in Sources :
                     \A i \in DOMAIN d.milk : d.milk[i].user_id \in DOMAIN d.user}
    /\ remote \in Targets
    /\ run = NoRun

NextTransfer ==
    \/ \E response \in Answers : transfer_main(response)
    \/ \E response \in Answers : transfer_truncate(response)
    \/ transfer_users
    \/ transfer_milk
    \/ transfer_verify
    \/ script_interrupted

SpecTransfer == InitTransfer /\ [][NextTransfer]_vars

\* C29: a transfer that is run again after an error outside the database
\* interrupted the run before it, on a target that was empty at first, ends
\* with success (unless it is interrupted again) whether or not the
\* interrupted run had committed its user or milk insert, and the target
\* then holds the source's rows once.
C29_RerunCompletes ==
    [][(/\ run.script = "migrate_sqlite_to_postgres"
        /\ run.locals.retry
        /\ run.locals.origin = EmptyDb
        /\ run.pc # "done"
        /\ run'.pc = "done")
            => /\ run'.result \in {"ok", "interrupted"}
               /\ run'.result = "ok"
                     => /\ remote'.user = local.user
                        /\ remote'.milk = local.milk]_vars

\* a step of the transfer script
TransferStep == run.script = "migrate_sqlite_to_postgres" /\ run.pc # "done"

\* C30: the transfer inserts user rows only in its user step and milk rows
\* only in the milk step that follows it; the user step leaves every user of
\* the target as it is and inserts no user whose address the target holds;
\* a transfer that reports success has inserted every source milk row, and,
\* when the target was empty at the start or was truncated in the run, the
\* target then holds exactly the source's users and milk rows; and rows leave
\* the target only in the truncation step of a run whose operator answered y
\* to the truncation prompt.
C30_TransferCopiesSource ==
    [][TransferStep =>
        /\ DOMAIN remote'.user \ DOMAIN remote.user # {}
              => run.pc = "insert_users" /\ remote'.milk = remote.milk
        /\ DOMAIN remote'.milk \ DOMAIN remote.milk # {}
              => run.pc = "milk" /\ remote'.user = remote.user
        /\ run.pc = "insert_users"
              => /\ \A u \in DOMAIN remote.user :
                       u \in DOMAIN remote'.user
                       /\ remote'.user[u] = remote.user[u]
                 /\ \A u \in DOMAIN remote'.user \ DOMAIN remote.user :
                       remote'.user[u].email \notin EmailsIn(remote.user)
        /\ run'.result = "ok"
              => /\ \A i \in DOMAIN local.milk :
                       i \in DOMAIN remote'.milk
                       /\ remote'.milk[i] = local.milk[i]
                 /\ (run.before.user = <<>> /\ run.before.milk = <<>>)
                      \/ run.locals.truncated
                       => /\ remote'.user = local.user
                          /\ remote'.milk = local.milk
        /\ (\/ DOMAIN remote.user \ DOMAIN remote'.user # {}
            \/ DOMAIN remote.milk \ DOMAIN remote'.milk # {})
              => /\ run.pc = "users"
                 /\ run'.locals.response = "y"
                 /\ run'.locals.truncated]_vars

\* C30 witness: a transfer has reported success on a target that held a user
\* with the address of a source user: that user was skipped, the other
\* source user and the source's milk rows are on the target
C30_Witness ==
    /\ run.script = "migrate_sqlite_to_postgres"
    /\ run.result = "ok"
    /\ ~run.locals.truncated
    /\ run.before.user # <<>>
    /\ DOMAIN local.user = UserIds
    /\ DOMAIN local.milk # {}
    /\ remote.user[1] = UserRow(EmailOf(1), FALSE)
    /\ NumUsers \in DOMAIN remote.user
    /\ \A i \in DOMAIN local.milk : remote.milk[i] = local.milk[i]

\* C30 witness for a truncated target: the target held rows, the operator
\* answered y, and the target equals the source after the reported success
C30_WitnessTruncated ==
    /\ run.script = "migrate_sqlite_to_postgres"
    /\ run.result = "ok"
    /\ run.locals.truncated
    /\ run.before.milk # <<>>
    /\ remote.user = local.user
    /\ remote.milk = local.milk
    /\ local.milk # <<>>

\* ------------------------------------- maintenance scripts: schema upkeep
\* the settings columns of the user table
SettingsColumns == {"milk_price_per_litre", "currency", "currency_symbol"}

\* add_user_settings.py, __main__: the columns are added after an explicit y
settings_main(response) ==
    /\ run.pc = "done"
    /\ run' = IF response = "y"
              THEN Run("add_user_settings", "columns", TRUE, remote)
              ELSE [Run("add_user_settings", "done", FALSE, remote)
                        EXCEPT !.result = "cancelled"]
    /\ UNCHANGED <<local, remote>>
    /\ NoAppChange

\* add_settings_columns: each column that is missing is added, the rows
\* without value get the defaults
add_settings_columns ==
    /\ run.script = "add_user_settings"
    /\ run.pc = "columns"
    /\ remote' = [remote EXCEPT !.user_cols = @ \cup SettingsColumns]
    /\ run' = Ended("ok")
    /\ UNCHANGED local
    /\ NoAppChange

\* create_tables.py, __main__: the tables are rebuilt after an explicit y
create_main(response) ==
    /\ run.pc = "done"
    /\ run' = IF response = "y"
              THEN Run("create_tables", "create", TRUE, remote)
              ELSE [Run("create_tables", "done", FALSE, remote)
                        EXCEPT !.result = "cancelled"]
    /\ UNCHANGED <<local, remote>>
    /\ NoAppChange

\* create_tables: db.drop_all(); db.create_all() with the script's own models
create_tables ==
    /\ run.script = "create_tables"
    /\ run.pc = "create"
    /\ remote' = [EmptyDb EXCEPT !.not_null = TRUE]
    /\ run' = Ended("ok")
    /\ UNCHANGED local
    /\ NoAppChange

\* fix_sequences.py, __main__: the sequences are reset after an explicit y
fix_main(response) ==
    /\ run.pc = "done"
    /\ run' = IF response = "y"
              THEN Run("fix_sequences", "fix", TRUE, remote)
              ELSE [Run("fix_sequences", "done", FALSE, remote)
                        EXCEPT !.result = "cancelled"]
    /\ UNCHANGED <<local, remote>>
    /\ NoAppChange

\* SELECT MAX(id) ... or 0
MaxId(rows) ==
    IF DOMAIN rows = {} THEN 0
    ELSE CHOOSE m \in DOMAIN rows : \A i \in DOMAIN rows : i <= m

\* fix_sequences: setval of each sequence to the largest id of its table,
\* when the table has rows
fix_sequences ==
    /\ run.script = "fix_sequences"
    /\ run.pc = "fix"
    /\ remote' = [remote EXCEPT
                     !.seq.user = IF MaxId(remote.user) > 0
                                  THEN MaxId(remote.user) ELSE @,
                     !.seq.milk = IF MaxId(remote.milk) > 0
                                  THEN MaxId(remote.milk) ELSE @]
    /\ run' = Ended("ok")
    /\ UNCHANGED local
    /\ NoAppChange

\* add_refresh_token_column.py: the script asks nothing; importing app adds
\* the settings columns that are missing, then the column refresh_token is
\* added when it is missing
add_refresh_token_column ==
    /\ run.pc = "done"
    /\ remote' = [remote EXCEPT
                     !.user_cols = @ \cup SettingsColumns \cup {"refresh_token"}]
    /\ run' = [Run("add_refresh_token_column", "done", FALSE, remote)
                   EXCEPT !.result = "ok"]
    /\ UNCHANGED local
    /\ NoAppChange

\* --------------------------------- specification: the maintenance scripts
\* a local database of the time before milk rows had owners, and a target
\* that holds a user
InitScripts ==
    /\ AppStopped
    /\ local = Database([u \in {1} |-> UserRow(EmailOf(1), TRUE)],
                        [i \in {1} |-> OwnedRow(DataOf(1), NullId)], FALSE)
    /\ remote = Database([u \in {1} |-> UserRow(EmailOf(1), FALSE)], <<>>, TRUE)
    /\ run = NoRun

NextScripts ==
    \/ \E response \in Answers : migrate_main(response)
    \/ \E response \in Answers : migrate_check(response)
    \/ migrate_add_column
    \/ \E typed \in {"", "x"} : migrate_assign(typed)
    \/ migrate_rebuild
    \/ \E response \in Answers : transfer_main(response)
    \/ \E response \in Answers : transfer_truncate(response)
    \/ transfer_users
    \/ transfer_milk
    \/ transfer_verify
    \/ \E response \in Answers : settings_main(response)
    \/ add_settings_columns
    \/ \E response \in Answers : create_main(response)
    \/ create_tables
    \/ \E response \in Answers : fix_main(response)
    \/ fix_sequences
    \/ add_refresh_token_column

SpecScripts == InitScripts /\ [][NextScripts]_vars

\* C25: in every maintenance script, a step that changes a database (adds a
\* column, drops, creates or rebuilds a table, inserts, updates or truncates
\* rows, resets a sequence) belongs to a run in which the operator has
\* answered y; a run whose first prompt got another answer ends with the
\* databases unchanged.
C25_MutationOnlyAfterYes ==
    [][/\ (local' # local \/ remote' # remote) => run'.confirmed
       /\ run'.result = "cancelled" => local' = local /\ remote' = remote]_vars

\* ----------------------------- specification: edits under changing prices
EditDates == {NoDate, BadDate, Iso(Now(MaxDay))}

NextEdit ==
    \/ \E u \in UserIds : add(u, NumStr(2), NoDate)
    \/ \E u \in UserIds, i \in RecordIds, q \in FormNumbers, d \in EditDates :
           edit(u, i, q, d)
    \/ \E u \in UserIds, i \in RecordIds, q \in {Absent, Text, Num(3)},
          d \in EditDates : api_update_milk_record(u, i, q, d)
    \/ settings(1, NumStr(OtherPrice), "", "", FALSE)

SpecEdit == Init /\ [][NextEdit]_vars

\* the float a page form's number field stands for (0 when the field is
\* missing)
FormQty(q) == IF q = Absent THEN F(0) ELSE FloatOf(q)

\* C31: page POST /edit on an owned record with a numeric quantity stores the
\* new quantity and cost = quantity x the caller's current price; a date that
\* parses is stored as DD-MM-YYYY together with its MM-YYYY month key, an
\* empty or unparseable date leaves date and month_year as they were.
C31_EditStoresQuantityAndDate ==
    [][\A u \in UserIds, i \in RecordIds, q \in {Absent, NumStr(2)},
          d \in EditDates :
          (edit(u, i, q, d) /\ Owns(u, i)) =>
              /\ milk'[i].milk_qty = FormQty(q)
              /\ milk'[i].cost = FMul(FormQty(q), users[u].price)
              /\ milk'[i].user_id = u
              /\ IF d \in {NoDate, BadDate}
                 THEN /\ milk'[i].date = milk[i].date
                      /\ milk'[i].month_year = milk[i].month_year
                 ELSE /\ milk'[i].date = <<d[3], d[2], d[1]>>
                      /\ milk'[i].month_year = <<d[2], d[1]>>]_vars

\* an edit has stored a quantity at a price other than the default, on a row
\* whose date is not the current day
C31_Witness ==
    /\ last.op = "edit"
    /\ last.status = "ok"
    /\ last.id \in DOMAIN milk
    /\ users[last.caller].price = F(OtherPrice)
    /\ milk[last.id].cost = FMul(F(2), F(OtherPrice))
    /\ milk[last.id].date # FmtDate(Now(day))

Headers == {NoHeader, Malformed} \cup {Bearer(t) : t \in Presentable}

NextGuard ==
    \/ \E e \in Emails : api_register(e, "pw1")
    \/ \E h \in Headers, c \in Presentable : decorated(h, c)
    \/ \E t \in Presentable : api_logout(t)
    \/ \E u \in UserIds : delete_user(u)
    \/ Pass(AccessLife)

SpecGuard == InitAuth /\ [][NextGuard]_vars

\* the token the guard has to judge, read off the request
Judged(h, c) == IF h.k = "bearer" /\ h.t # NoToken THEN h.t ELSE c

C33_WitnessOrder ==
    /\ last.op = "api_me"
    /\ last.status = "401"
    /\ last.message = "type"
    /\ Decodes(last.token)
    /\ last.token.user_id \notin DOMAIN accounts

\* C34: a page POST /edit whose quantity is not numeric persists nothing: the
\* record's date, month_year, milk_qty and cost are as before, also when the
\* request carried a new date that parses and was assigned to the loaded
\* record before the quantity was read.
C34_RejectedEditPersistsNothing ==
    [][\A u \in UserIds, i \in RecordIds, d \in EditDates :
          (edit(u, i, Text, d) /\ Owns(u, i)) =>
              /\ last'.status = "invalid"
              /\ milk' = milk]_vars

\* an edit was refused for its quantity on a row that is not dated with the
\* date the requests of this specification carry
C34_Witness ==
    /\ last.op = "edit"
    /\ last.status = "invalid"
    /\ last.id \in DOMAIN milk
    /\ milk[last.id].user_id = last.caller
    /\ milk[last.id].date # FmtDate(Now(MaxDay))

\* C35: an OAuth callback (Google or GitHub) whose email matches an existing
\* account establishes a session for that account and changes no row, also
\* when it is a password account whose email_verified is false; a callback
\* for an email no account has creates one row, verified, without password,
\* with the provider and the provider's subject id, and leaves every other
\* row as it was.
C35_CallbackLeavesExistingAccount ==
    [][\A p \in {"google", "github"}, e \in Emails :
          oauth_callback(p, e) =>
              IF \E u \in DOMAIN accounts : accounts[u].email = e
              THEN /\ accounts' = accounts
                   /\ users' = users
                   /\ session' \in DOMAIN accounts
                   /\ accounts[session'].email = e
              ELSE /\ session' \notin DOMAIN accounts
                   /\ DOMAIN accounts' = DOMAIN accounts \cup {session'}
                   /\ \A u \in DOMAIN accounts : accounts'[u] = accounts[u]
                   /\ accounts'[session'] =
                          [email |-> e, password_hash |-> None,
                           email_verified |-> TRUE, oauth_provider |-> p,
                           oauth_id |-> <<p, e>>, refresh_token |-> None]]_vars

\* a callback has opened a session for a password account that is still
\* unverified and has no provider
C35_Witness ==
    /\ last.op \in {"google", "github"}
    /\ last.status = "ok"
    /\ session \in DOMAIN accounts
    /\ accounts[session].password_hash # None
    /\ ~accounts[session].email_verified
    /\ accounts[session].oauth_provider = ""
    /\ accounts[session].oauth_id = None

RegRoutes == {"register", "api_register", "google", "github"}

\* the row a route constructs for a new account
NewAccount(route, email) ==
    CASE route = "register" -> Account(email, Hash("pw1"), FALSE, "")
      [] route = "api_register" -> Account(email, Hash("pw1"), TRUE, "")
      [] OTHER -> OAuthAccount(route, email)

\* EmailTaken without a unique index on the column
EmailTakenNever(email) == FALSE

\* email: unique=True: the index refuses the insert of a second row with
\* this address
EmailTaken(email) == \E u \in DOMAIN accounts : accounts[u].email = email

\* a request of a client without session up to and including its lookup
\* filter_by(email=email).first(): a route that finds a row answers at once
\* (the registrations refuse, the callbacks open the session), a route that
\* finds none goes on to insert
reg_check(w, route, email) ==
    /\ pend[w] = Idle
    /\ IF ByEmail(email) # {} THEN
           /\ session' = IF route \in {"google", "github"}
                         THEN CHOOSE x \in ByEmail(email) : TRUE
                         ELSE session
           /\ last' = CASE route = "register" -> PageResp(route, 0, "exists")
                        [] route = "api_register" ->
                               AuthResp(route, 0, "409", NoToken, NoToken,
                                        NoToken)
                        [] OTHER -> PageResp(route, session', "ok")
           /\ UNCHANGED pend
       ELSE
           /\ pend' = [pend EXCEPT ![w] =
                          [pc |-> "checked", op |-> route, email |-> email]]
           /\ UNCHANGED <<last, session>>
    /\ NoTableChange
    /\ UNCHANGED <<users, day, accounts, issued, clock, tz, latest, mail, how>>
    /\ UNCHANGED scriptVars

\* db.session.add(user); db.session.commit() and the rest of the handler: an
\* insert the unique index refuses raises IntegrityError (status 500)
reg_insert(w) ==
    /\ pend[w] # Idle
    /\ pend' = [pend EXCEPT ![w] = Idle]
    /\ LET route == pend[w].op
           email == pend[w].email
       IN IF EmailTaken(email) THEN
              /\ last' = AuthResp(route, 0, "500", NoToken, NoToken, NoToken)
              /\ UNCHANGED <<users, accounts, session, issued, latest, mail, how>>
          ELSE
              /\ NextUserId <= NumUsers
              /\ accounts' = Put(accounts, NextUserId, NewAccount(route, email))
              /\ users' = Put(users, NextUserId, NewUser)
              /\ how' = Put(how, NextUserId,
                            How(IF route = "register" THEN "page"
                                ELSE IF route = "api_register" THEN "api"
                                ELSE route))
              /\ CASE route = "register" ->
                        /\ mail' = mail \cup {VToken(email)}
                        /\ last' = PageResp(route, NextUserId, "ok")
                        /\ UNCHANGED <<session, issued, latest>>
                   [] route = "api_register" ->
                        /\ IssuePair(route, NextUserId, "201")
                        /\ UNCHANGED <<session, mail>>
                   [] OTHER ->
                        /\ session' = NextUserId
                        /\ last' = PageResp(route, NextUserId, "ok")
                        /\ UNCHANGED <<issued, latest, mail>>
    /\ NoTableChange
    /\ UNCHANGED <<day, clock, tz, scriptVars>>

NextRegister ==
    \/ \E w \in Workers, route \in RegRoutes, e \in Emails :
           reg_check(w, route, e)
    \/ \E w \in Workers : reg_insert(w)

SpecRegister == InitAuth /\ [][NextRegister]_vars

\* C37: through page /register, POST /api/auth/register and the OAuth
\* callbacks, one at a time or interleaved, no two User rows ever have the
\* same email, and a registration for an address that is registered (at its
\* lookup or, in a race, at its insert) creates no row and leaves every row
\* as it was.
C37_EmailsUnique ==
    [][/\ \A u, v \in DOMAIN accounts' :
             accounts'[u].email = accounts'[v].email => u = v
       /\ \A w \in Workers, route \in RegRoutes, e \in Emails :
             (reg_check(w, route, e) /\ \E u \in DOMAIN accounts :
                                            accounts[u].email = e)
                 => accounts' = accounts /\ users' = users
       /\ \A w \in Workers :
             (/\ reg_insert(w)
              /\ \E u \in DOMAIN accounts : accounts[u].email = pend[w].email)
                 => accounts' = accounts /\ users' = users]_vars

\* a registration that passed its lookup was refused at its insert: another
\* request had registered the address in between
C37_Witness ==
    /\ last.op \in RegRoutes
    /\ last.status = "500"
    /\ accounts # <<>>
    /\ \A w \in Workers : pend[w] = Idle

\* ----------------------- specification: sessions that outlive their user
NextStale ==
    \/ \E e \in Emails : oauth_callback("google", e)
    \/ logout
    \/ \E d \in {NoDate, Iso(Now(MaxDay))} : add_request(NumStr(2), d)
    \/ \E i \in RecordIds : delete_request(i)
    \/ \E u \in UserIds : delete_user(u)

SpecStale == Init /\ [][NextStale]_vars

\* C38: in every reachable state each Milk row's user_id is the id of an
\* existing User, also after a page POST /add made with a session whose user
\* no longer exists.
C38_RowsHaveAUser ==
    \A i \in DOMAIN milk : milk[i].user_id \in DOMAIN users

====
